---- MODULE Spec2Model ----
(***************************************************************************)
(* Data-flow lifecycle of the data-plane SDK: the DataFlow entity state    *)
(* machine (pkg/dsdk/model.go), the in-memory store and transaction        *)
(* context (pkg/memory/memory.go) and the lifecycle engine DataPlaneSDK    *)
(* (Prepare, Start, StartById, Suspend, Terminate, Complete).              *)
(*                                                                         *)
(* The specifications share the variables:                                 *)
(*   SpecEntity  TransitionTo* called on one in-memory DataFlow            *)
(*   Spec        engine operations, one call at a time, on the store       *)
(*   SpecConc    two engine operations interleaved at their store calls    *)
(*   SpecLost    SpecConc with a Delete of the flow by another caller      *)
(*   SpecTrx     a unit of work run by a transaction context               *)
(*   SpecStore   the operations of the in-memory store                     *)
(*   SpecStores  the in-memory and the relational store side by side       *)
(*   SpecAlias   callers holding references to flows given to the store    *)
(*   SpecRace    concurrent Create, Prepare and Start for an absent id     *)
(*   SpecApi     requests served by the signaling facade                   *)
(*   SpecSdk     an engine constructed from a set of options               *)
(***************************************************************************)
EXTENDS Integers, Sequences, FiniteSets, TLC

VARIABLES
    clock,      \* time.Now().UnixMilli()
    df,         \* SpecEntity: the DataFlow the transitions are called on
    call,       \* SpecEntity: the last TransitionTo* call and its outcome
    base,       \* SpecEntity: StateCount of df when it was constructed
    effective,  \* SpecEntity: number of effective transitions performed
    store,      \* InMemoryStore.flows: id -> DataFlow, NoFlow when absent
    last,       \* Spec: the last engine call and its outcome
    procs       \* the in-flight calls, or what else a specification holds

vars == <<clock, df, call, base, effective, store, last, procs>>

---------------------------------------------------------------------------
(* Bounds *)

MaxClock == 2
MaxCount == 4
MaxInitCount == 1

---------------------------------------------------------------------------
(* DataFlowState *)

Uninitialized == 0
Preparing == 50
Prepared == 100
Starting == 150
Started == 200
Completed == 250
Suspended == 300
Terminated == 350

States ==
    {Uninitialized, Preparing, Prepared, Starting, Started, Completed,
     Suspended, Terminated}

(* Errors.  An error is identified by the sentinel errors.Is finds in it;  *)
(* wrapping with %w keeps that identity.                                   *)

Nil == "nil"
ErrValidation == "validation error"
ErrConflict == "conflict"
ErrNotFound == "not found"
ErrInvalidInput == "invalid input"
ErrInvalidTransition == "invalid transition"

Reasons == {"r1", "r2"}

(* A nil *DataFlow, and the record of "no call made yet". *)
NoFlow == [ID |-> ""]
NoCall == [target |-> -1]
NoOp == [op |-> "none"]

---------------------------------------------------------------------------
(* DataFlow.TransitionTo*: each returns the flow after the call and the    *)
(* error.  now is time.Now().UnixMilli() at the call.                      *)

TransitionToPreparing(flow, now) ==
    IF flow.State = Preparing
    THEN [df |-> flow, err |-> Nil]
    ELSE IF flow.State # Uninitialized
    THEN [df |-> flow, err |-> ErrInvalidTransition]
    ELSE [df |-> [flow EXCEPT !.State = Preparing,
                              !.StateTimestamp = now,
                              !.StateCount = @ + 1],
          err |-> Nil]

TransitionToPrepared(flow, now) ==
    IF flow.State = Prepared
    THEN [df |-> flow, err |-> Nil]
    ELSE IF flow.State # Uninitialized /\ flow.State # Preparing
    THEN [df |-> flow, err |-> ErrInvalidTransition]
    ELSE [df |-> [flow EXCEPT !.State = Prepared,
                              !.StateTimestamp = now,
                              !.StateCount = @ + 1],
          err |-> Nil]

TransitionToStarting(flow, now) ==
    IF flow.State = Starting
    THEN [df |-> flow, err |-> Nil]
    ELSE IF flow.State # Uninitialized /\ flow.State # Prepared
    THEN [df |-> flow, err |-> ErrInvalidTransition]
    ELSE [df |-> [flow EXCEPT !.State = Starting,
                              !.StateTimestamp = now,
                              !.StateCount = @ + 1],
          err |-> Nil]

TransitionToStartedNoCount(flow, now) ==
    IF flow.State = Started
    THEN [df |-> flow, err |-> Nil]
    ELSE IF flow.State # Uninitialized /\ flow.State # Prepared
            /\ flow.State # Starting /\ flow.State # Suspended
    THEN [df |-> flow, err |-> ErrInvalidTransition]
    ELSE [df |-> [flow EXCEPT !.State = Started,
                              !.StateTimestamp = now],
          err |-> Nil]

TransitionToStartedFromCompleted(flow, now) ==
    IF flow.State = Started
    THEN [df |-> flow, err |-> Nil]
    ELSE IF flow.State # Uninitialized /\ flow.State # Prepared
            /\ flow.State # Starting /\ flow.State # Suspended
            /\ flow.State # Completed
    THEN [df |-> flow, err |-> ErrInvalidTransition]
    ELSE [df |-> [flow EXCEPT !.State = Started,
                              !.StateTimestamp = now,
                              !.StateCount = @ + 1],
          err |-> Nil]

TransitionToStarted(flow, now) ==
    IF flow.State = Started
    THEN [df |-> flow, err |-> Nil]
    ELSE IF flow.State # Uninitialized /\ flow.State # Prepared
            /\ flow.State # Starting /\ flow.State # Suspended
    THEN [df |-> flow, err |-> ErrInvalidTransition]
    ELSE [df |-> [flow EXCEPT !.State = Started,
                              !.StateTimestamp = now,
                              !.StateCount = @ + 1],
          err |-> Nil]

TransitionToSuspendedStampFirst(flow, now) ==
    IF flow.State = Suspended
    THEN [df |-> flow, err |-> Nil]
    ELSE IF flow.State # Started
    THEN [df |-> [flow EXCEPT !.StateTimestamp = now],
          err |-> ErrInvalidTransition]
    ELSE [df |-> [flow EXCEPT !.State = Suspended,
                              !.StateTimestamp = now,
                              !.StateCount = @ + 1],
          err |-> Nil]

TransitionToSuspended(flow, now) ==
    IF flow.State = Suspended
    THEN [df |-> flow, err |-> Nil]
    ELSE IF flow.State # Started
    THEN [df |-> flow, err |-> ErrInvalidTransition]
    ELSE [df |-> [flow EXCEPT !.State = Suspended,
                              !.StateTimestamp = now,
                              !.StateCount = @ + 1],
          err |-> Nil]

TransitionToCompletedNoDedup(flow, now) ==
    IF flow.State # Started /\ flow.State # Completed
    THEN [df |-> flow, err |-> ErrInvalidTransition]
    ELSE [df |-> [flow EXCEPT !.State = Completed,
                              !.StateTimestamp = now,
                              !.StateCount = @ + 1],
          err |-> Nil]

TransitionToCompleted(flow, now) ==
    IF flow.State = Completed
    THEN [df |-> flow, err |-> Nil]
    ELSE IF flow.State # Started
    THEN [df |-> flow, err |-> ErrInvalidTransition]
    ELSE [df |-> [flow EXCEPT !.State = Completed,
                              !.StateTimestamp = now,
                              !.StateCount = @ + 1],
          err |-> Nil]

TransitionToTerminated(flow, now) ==
    IF flow.State = Terminated
    THEN [df |-> flow, err |-> Nil]
    ELSE [df |-> [flow EXCEPT !.State = Terminated,
                              !.StateTimestamp = now,
                              !.StateCount = @ + 1],
          err |-> Nil]

(* TransitionToSuspended(reason) and TransitionToTerminated(reason): an    *)
(* effective transition records the reason in ErrorDetail.                 *)

WithReason(before, result, reason) ==
    IF result.err = Nil /\ result.df.State # before.State
    THEN [result EXCEPT !.df.ErrorDetail = reason]
    ELSE result

TransitionToSuspendedReason(flow, reason, now) ==
    WithReason(flow, TransitionToSuspended(flow, now), reason)

TransitionToTerminatedReason(flow, reason, now) ==
    WithReason(flow, TransitionToTerminated(flow, now), reason)

(* The caller's choice among the seven TransitionTo* methods. *)

Targets == States \ {Uninitialized}

TransitionTo(target, flow, reason, now) ==
    CASE target = Preparing  -> TransitionToPreparing(flow, now)
      [] target = Prepared   -> TransitionToPrepared(flow, now)
      [] target = Starting   -> TransitionToStarting(flow, now)
      [] target = Started    -> TransitionToStarted(flow, now)
      [] target = Suspended  -> TransitionToSuspendedReason(flow, reason, now)
      [] target = Completed  -> TransitionToCompleted(flow, now)
      [] target = Terminated -> TransitionToTerminatedReason(flow, reason, now)

---------------------------------------------------------------------------
(* InMemoryStore.  flows maps an id to a copy of the flow; every operation *)
(* holds the store's lock, so it is one atomic step.                       *)

FindById(s, id) ==
    IF id \notin DOMAIN s \/ s[id] = NoFlow
    THEN [flow |-> NoFlow, err |-> ErrNotFound]
    ELSE [flow |-> s[id], err |-> Nil]

CreateOverwrites(s, flow) ==
    IF flow = NoFlow
    THEN [store |-> s, err |-> ErrInvalidInput]
    ELSE IF flow.ID = ""
    THEN [store |-> s, err |-> ErrInvalidInput]
    ELSE [store |-> [s EXCEPT ![flow.ID] = flow], err |-> Nil]

CreateConflictAsInvalidInput(s, flow) ==
    IF flow = NoFlow
    THEN [store |-> s, err |-> ErrInvalidInput]
    ELSE IF flow.ID = ""
    THEN [store |-> s, err |-> ErrInvalidInput]
    ELSE IF s[flow.ID] # NoFlow
    THEN [store |-> s, err |-> ErrInvalidInput]
    ELSE [store |-> [s EXCEPT ![flow.ID] = flow], err |-> Nil]

Create(s, flow) ==
    IF flow = NoFlow
    THEN [store |-> s, err |-> ErrInvalidInput]
    ELSE IF flow.ID = ""
    THEN [store |-> s, err |-> ErrInvalidInput]
    ELSE IF s[flow.ID] # NoFlow
    THEN [store |-> s, err |-> ErrConflict]
    ELSE [store |-> [s EXCEPT ![flow.ID] = flow], err |-> Nil]

SaveUpserts(s, flow) ==
    IF flow = NoFlow
    THEN [store |-> s, err |-> ErrInvalidInput]
    ELSE IF flow.ID = ""
    THEN [store |-> s, err |-> ErrInvalidInput]
    ELSE [store |-> [s EXCEPT ![flow.ID] = flow], err |-> Nil]

Save(s, flow) ==
    IF flow = NoFlow
    THEN [store |-> s, err |-> ErrInvalidInput]
    ELSE IF flow.ID = ""
    THEN [store |-> s, err |-> ErrInvalidInput]
    ELSE IF s[flow.ID] = NoFlow
    THEN [store |-> s, err |-> ErrNotFound]
    ELSE [store |-> [s EXCEPT ![flow.ID] = flow], err |-> Nil]

Delete(s, id) ==
    IF id = ""
    THEN [store |-> s, err |-> ErrInvalidInput]
    ELSE IF s[id] = NoFlow
    THEN [store |-> s, err |-> ErrNotFound]
    ELSE [store |-> [s EXCEPT ![id] = NoFlow], err |-> Nil]

(* A data address: none (the zero value), or the one a message carries. *)
NoAddress == "no address"
DataAddresses == {NoAddress, "da1"}

(* DataFlowBuilder.Build for the flows the engine builds: ID, Consumer and *)
(* State are set by the caller, the other required fields are copied from  *)
(* the message; complete says whether the message carries all of them.     *)

ErrBuild == "validation failed"

BuildCountsInitialState(id, consumer, state, complete, now) ==
    IF id = "" \/ ~complete
    THEN [flow |-> NoFlow, err |-> ErrBuild]
    ELSE [flow |-> [ID |-> id, Consumer |-> consumer, State |-> state,
                    StateCount |-> 1, StateTimestamp |-> now,
                    ErrorDetail |-> "", SourceDataAddress |-> NoAddress],
          err |-> Nil]

Build(id, consumer, state, complete, now) ==
    IF id = "" \/ ~complete
    THEN [flow |-> NoFlow, err |-> ErrBuild]
    ELSE [flow |-> [ID |-> id, Consumer |-> consumer, State |-> state,
                    StateCount |-> 0, StateTimestamp |-> now,
                    ErrorDetail |-> "", SourceDataAddress |-> NoAddress],
          err |-> Nil]

---------------------------------------------------------------------------
(* DataPlaneSDK.  Each operation is evaluated as the code runs it and      *)
(* returns the store afterwards, the error, the response and the sequence  *)
(* of calls it made to the store, the builder and the processors.          *)
(* InMemoryTrxContext.Execute runs the unit of work directly.              *)
(*                                                                         *)
(* A processor (onPrepare, onStart) is a callback of the deployer: its     *)
(* outcome is the pair (State of the response, err).  A handler            *)
(* (onTerminate, onSuspend, onComplete) is reduced to its error.  The      *)
(* callbacks compute a response; they do not reassign the lifecycle fields *)
(* of the flow they are handed.                                            *)

ErrEmptyProcessID == "processID cannot be empty"
ErrProcessor == "processor error"
ErrInvalidState == "returned an invalid state"

NoResponse == -1

Ev(name, duplicate, address) ==
    [call |-> name, Duplicate |-> duplicate, DataAddress |-> address]

EvFindById == Ev("FindById", FALSE, NoAddress)
EvBuild == Ev("Build", FALSE, NoAddress)
EvCreate == Ev("Create", FALSE, NoAddress)
EvSave == Ev("Save", FALSE, NoAddress)
EvTransition == Ev("TransitionTo", FALSE, NoAddress)
EvOnPrepare(duplicate) == Ev("onPrepare", duplicate, NoAddress)
EvOnStart(duplicate, address) == Ev("onStart", duplicate, address)
EvOnTerminate == Ev("onTerminate", FALSE, NoAddress)
EvOnSuspend == Ev("onSuspend", FALSE, NoAddress)
EvOnComplete == Ev("onComplete", FALSE, NoAddress)

Out(s, err, response, calls) ==
    [store |-> s, err |-> err, response |-> response, calls |-> calls]

DefaultPrepare == [State |-> Prepared, err |-> Nil]
DefaultStart == [State |-> Started, err |-> Nil]

(* The caller's context: live, or already cancelled when the call is made. *)
Live == "live"
Cancelled == "cancelled"
Contexts == {Live, Cancelled}
ErrCanceled == "context canceled"

(* execute: a select on ctx.Done() with a default branch; a Done channel   *)
(* that is already closed is ready, so the default branch (the transaction *)
(* and the unit of work) is taken only for a live context.                 *)
executeIgnoresContext(ctx, s, work) == work

execute(ctx, s, work) ==
    IF ctx = Cancelled
    THEN Out(s, ErrCanceled, NoResponse, <<>>)
    ELSE work

(* Prepare, duplicate message: the flow is already Preparing or Prepared. *)
prepareDuplicateTransitions(s, flow, onPrepare, now) ==
    IF onPrepare.err # Nil
    THEN Out(s, onPrepare.err, onPrepare.State,
             <<EvFindById, EvOnPrepare(TRUE)>>)
    ELSE LET moved == IF onPrepare.State = Prepared
                      THEN TransitionToPrepared(flow, now)
                      ELSE [df |-> flow, err |-> Nil]
             saved == Save(s, moved.df)
         IN  Out(saved.store, saved.err, onPrepare.State,
                 <<EvFindById, EvOnPrepare(TRUE), EvSave>>)

prepareDuplicate(s, flow, onPrepare, now) ==
    IF onPrepare.err # Nil
    THEN Out(s, onPrepare.err, onPrepare.State,
             <<EvFindById, EvOnPrepare(TRUE)>>)
    ELSE LET saved == Save(s, flow)
         IN  Out(saved.store, saved.err, onPrepare.State,
                 <<EvFindById, EvOnPrepare(TRUE), EvSave>>)

(* Prepare, no stored flow: build, ask the processor, transition, create. *)
prepareNewAlwaysPreparing(s, message, onPrepare, now) ==
    LET built == Build(message.ProcessID, TRUE, Preparing,
                       message.Complete, now)
        calls == <<EvFindById, EvBuild, EvOnPrepare(FALSE)>>
    IN  IF built.err # Nil
        THEN Out(s, built.err, NoResponse, <<EvFindById, EvBuild>>)
        ELSE IF onPrepare.err # Nil
        THEN Out(s, onPrepare.err, onPrepare.State, calls)
        ELSE IF onPrepare.State # Prepared /\ onPrepare.State # Preparing
        THEN Out(s, ErrInvalidState, onPrepare.State, calls)
        ELSE LET created == Create(s, built.flow)
             IN  Out(created.store, created.err, onPrepare.State,
                     calls \o <<EvTransition, EvCreate>>)

prepareNew(s, message, onPrepare, now) ==
    LET built == Build(message.ProcessID, TRUE, Preparing,
                       message.Complete, now)
        calls == <<EvFindById, EvBuild, EvOnPrepare(FALSE)>>
    IN  IF built.err # Nil
        THEN Out(s, built.err, NoResponse, <<EvFindById, EvBuild>>)
        ELSE IF onPrepare.err # Nil
        THEN Out(s, onPrepare.err, onPrepare.State, calls)
        ELSE LET moved ==
                   IF onPrepare.State = Prepared
                   THEN TransitionToPrepared(built.flow, now)
                   ELSE IF onPrepare.State = Preparing
                   THEN TransitionToPreparing(built.flow, now)
                   ELSE [df |-> built.flow, err |-> ErrInvalidState]
             IN  IF moved.err = ErrInvalidState
                 THEN Out(s, moved.err, onPrepare.State, calls)
                 ELSE IF moved.err # Nil
                 THEN Out(s, moved.err, onPrepare.State,
                          Append(calls, EvTransition))
                 ELSE LET created == Create(s, moved.df)
                      IN  Out(created.store, created.err, onPrepare.State,
                              calls \o <<EvTransition, EvCreate>>)

PrepareRetriesAnyState(ctx, s, message, onPrepare, now) ==
    LET processID == message.ProcessID
        found == FindById(s, processID)
        flow == found.flow
    IN  IF processID = ""
        THEN Out(s, ErrEmptyProcessID, NoResponse, <<>>)
        ELSE execute(ctx, s,
        IF found.err # Nil /\ found.err # ErrNotFound
        THEN Out(s, found.err, NoResponse, <<EvFindById>>)
        ELSE IF flow # NoFlow
        THEN prepareDuplicate(s, flow, onPrepare, now)
        ELSE prepareNew(s, message, onPrepare, now))

Prepare(ctx, s, message, onPrepare, now) ==
    LET processID == message.ProcessID
        found == FindById(s, processID)
        flow == found.flow
    IN  IF processID = ""
        THEN Out(s, ErrEmptyProcessID, NoResponse, <<>>)
        ELSE execute(ctx, s,
        IF found.err # Nil /\ found.err # ErrNotFound
        THEN Out(s, found.err, NoResponse, <<EvFindById>>)
        ELSE IF flow # NoFlow /\ (flow.State = Preparing \/ flow.State = Prepared)
        THEN prepareDuplicate(s, flow, onPrepare, now)
        ELSE IF flow # NoFlow
        THEN Out(s, ErrConflict, NoResponse, <<EvFindById>>)
        ELSE prepareNew(s, message, onPrepare, now))

(* startState: the transition the processor's response asks for. *)
startState(response, flow, now) ==
    IF response = Started
    THEN TransitionToStarted(flow, now)
    ELSE IF response = Starting
    THEN TransitionToStarting(flow, now)
    ELSE [df |-> flow, err |-> ErrInvalidState]

startExistingFlowAsProvider(s, flow, sourceAddress, onStart, now) ==
    IF flow # NoFlow /\ (flow.State = Starting \/ flow.State = Started)
    THEN \* duplicate message
         LET calls == <<EvOnStart(TRUE, sourceAddress)>>
             moved == startState(onStart.State, flow, now)
         IN  IF onStart.err # Nil
             THEN Out(s, onStart.err, NoResponse, calls)
             ELSE IF moved.err = ErrInvalidState
             THEN Out(s, moved.err, NoResponse, calls)
             ELSE IF moved.err # Nil
             THEN Out(s, moved.err, NoResponse, Append(calls, EvTransition))
             ELSE LET saved == Save(s, [moved.df EXCEPT !.Consumer = FALSE])
                  IN  Out(saved.store, saved.err,
                          IF saved.err # Nil THEN NoResponse
                          ELSE onStart.State,
                          calls \o <<EvTransition, EvSave>>)
    ELSE IF flow # NoFlow /\ flow.Consumer /\ flow.State = Prepared
    THEN \* consumer side
         LET calls == <<EvOnStart(FALSE, sourceAddress)>>
             moved == startState(onStart.State, flow, now)
         IN  IF onStart.err # Nil
             THEN Out(s, onStart.err, NoResponse, calls)
             ELSE IF moved.err = ErrInvalidState
             THEN Out(s, moved.err, NoResponse, calls)
             ELSE IF moved.err # Nil
             THEN Out(s, moved.err, NoResponse, Append(calls, EvTransition))
             ELSE LET saved == Save(s, [moved.df EXCEPT !.Consumer = FALSE])
                  IN  Out(saved.store, saved.err,
                          IF saved.err # Nil THEN NoResponse
                          ELSE onStart.State,
                          calls \o <<EvTransition, EvSave>>)
    ELSE Out(s, ErrInvalidTransition, NoResponse, <<>>)

startExistingFlow(s, flow, sourceAddress, onStart, now) ==
    IF flow # NoFlow /\ (flow.State = Starting \/ flow.State = Started)
    THEN \* duplicate message
         LET calls == <<EvOnStart(TRUE, sourceAddress)>>
             moved == startState(onStart.State, flow, now)
         IN  IF onStart.err # Nil
             THEN Out(s, onStart.err, NoResponse, calls)
             ELSE IF moved.err = ErrInvalidState
             THEN Out(s, moved.err, NoResponse, calls)
             ELSE IF moved.err # Nil
             THEN Out(s, moved.err, NoResponse, Append(calls, EvTransition))
             ELSE LET saved == Save(s, moved.df)
                  IN  Out(saved.store, saved.err,
                          IF saved.err # Nil THEN NoResponse
                          ELSE onStart.State,
                          calls \o <<EvTransition, EvSave>>)
    ELSE IF flow # NoFlow /\ flow.Consumer /\ flow.State = Prepared
    THEN \* consumer side
         LET calls == <<EvOnStart(FALSE, sourceAddress)>>
             moved == startState(onStart.State, flow, now)
         IN  IF onStart.err # Nil
             THEN Out(s, onStart.err, NoResponse, calls)
             ELSE IF moved.err = ErrInvalidState
             THEN Out(s, moved.err, NoResponse, calls)
             ELSE IF moved.err # Nil
             THEN Out(s, moved.err, NoResponse, Append(calls, EvTransition))
             ELSE LET saved == Save(s, moved.df)
                  IN  Out(saved.store, saved.err,
                          IF saved.err # Nil THEN NoResponse
                          ELSE onStart.State,
                          calls \o <<EvTransition, EvSave>>)
    ELSE Out(s, ErrInvalidTransition, NoResponse, <<>>)

(* Start, no stored flow (provider side): build, ask the processor,       *)
(* transition, create.                                                     *)
startNewAsConsumer(s, message, onStart, now) ==
    LET built == Build(message.ProcessID, TRUE, Starting,
                       message.Complete, now)
        calls == <<EvFindById, EvBuild, EvOnStart(FALSE, message.DataAddress)>>
    IN  IF built.err # Nil
        THEN Out(s, built.err, NoResponse, <<EvFindById, EvBuild>>)
        ELSE IF onStart.err # Nil
        THEN Out(s, onStart.err, onStart.State, calls)
        ELSE LET moved == startState(onStart.State, built.flow, now)
             IN  IF moved.err = ErrInvalidState
                 THEN Out(s, moved.err, onStart.State, calls)
                 ELSE IF moved.err # Nil
                 THEN Out(s, moved.err, onStart.State,
                          Append(calls, EvTransition))
                 ELSE LET created == Create(s, moved.df)
                      IN  Out(created.store, created.err, onStart.State,
                              calls \o <<EvTransition, EvCreate>>)

startNew(s, message, onStart, now) ==
    LET built == Build(message.ProcessID, FALSE, Starting,
                       message.Complete, now)
        calls == <<EvFindById, EvBuild, EvOnStart(FALSE, message.DataAddress)>>
    IN  IF built.err # Nil
        THEN Out(s, built.err, NoResponse, <<EvFindById, EvBuild>>)
        ELSE IF onStart.err # Nil
        THEN Out(s, onStart.err, onStart.State, calls)
        ELSE LET moved == startState(onStart.State, built.flow, now)
             IN  IF moved.err = ErrInvalidState
                 THEN Out(s, moved.err, onStart.State, calls)
                 ELSE IF moved.err # Nil
                 THEN Out(s, moved.err, onStart.State,
                          Append(calls, EvTransition))
                 ELSE LET created == Create(s, moved.df)
                      IN  Out(created.store, created.err, onStart.State,
                              calls \o <<EvTransition, EvCreate>>)

StartTreatsAsConsumer(ctx, s, message, onStart, now) ==
    LET processID == message.ProcessID
        found == FindById(s, processID)
        flow == found.flow
    IN  IF processID = ""
        THEN Out(s, ErrEmptyProcessID, NoResponse, <<>>)
        ELSE execute(ctx, s,
        IF found.err # Nil /\ found.err # ErrNotFound
        THEN Out(s, found.err, NoResponse, <<EvFindById>>)
        ELSE IF flow = NoFlow
        THEN startNew(s, message, onStart, now)
        ELSE LET r == startExistingFlow(s, [flow EXCEPT !.Consumer = TRUE],
                                        message.DataAddress,
                                        onStart, now)
             IN  Out(r.store, r.err, r.response, <<EvFindById>> \o r.calls))

Start(ctx, s, message, onStart, now) ==
    LET processID == message.ProcessID
        found == FindById(s, processID)
        flow == found.flow
    IN  IF processID = ""
        THEN Out(s, ErrEmptyProcessID, NoResponse, <<>>)
        ELSE execute(ctx, s,
        IF found.err # Nil /\ found.err # ErrNotFound
        THEN Out(s, found.err, NoResponse, <<EvFindById>>)
        ELSE IF flow = NoFlow
        THEN startNew(s, message, onStart, now)
        ELSE LET r == startExistingFlow(s, flow, message.DataAddress,
                                        onStart, now)
             IN  Out(r.store, r.err, r.response, <<EvFindById>> \o r.calls))

StartByIdAnyFlow(ctx, s, processID, message, onStart, now) ==
    LET found == FindById(s, processID)
        existingFlow == found.flow
    IN  execute(ctx, s,
        IF found.err # Nil /\ found.err # ErrNotFound
        THEN Out(s, found.err, NoResponse, <<EvFindById>>)
        ELSE IF existingFlow = NoFlow
        THEN Out(s, ErrNotFound, NoResponse, <<EvFindById>>)
        ELSE LET r == startExistingFlow(s, existingFlow, message.DataAddress,
                                        onStart, now)
             IN  Out(r.store, r.err, r.response, <<EvFindById>> \o r.calls))

StartByIdResumes(ctx, s, processID, message, onStart, now) ==
    LET found == FindById(s, processID)
        existingFlow == found.flow
    IN  execute(ctx, s,
        IF found.err # Nil /\ found.err # ErrNotFound
        THEN Out(s, found.err, NoResponse, <<EvFindById>>)
        ELSE IF existingFlow = NoFlow
        THEN Out(s, ErrNotFound, NoResponse, <<EvFindById>>)
        ELSE IF ~existingFlow.Consumer
        THEN Out(s, ErrInvalidInput, NoResponse, <<EvFindById>>)
        ELSE LET r == startExistingFlow(
                          s,
                          IF existingFlow.State = Suspended
                          THEN [existingFlow EXCEPT !.State = Prepared]
                          ELSE existingFlow,
                          message.DataAddress, onStart, now)
             IN  Out(r.store, r.err, r.response, <<EvFindById>> \o r.calls))

StartById(ctx, s, processID, message, onStart, now) ==
    LET found == FindById(s, processID)
        existingFlow == found.flow
    IN  execute(ctx, s,
        IF found.err # Nil /\ found.err # ErrNotFound
        THEN Out(s, found.err, NoResponse, <<EvFindById>>)
        ELSE IF existingFlow = NoFlow
        THEN Out(s, ErrNotFound, NoResponse, <<EvFindById>>)
        ELSE IF ~existingFlow.Consumer
        THEN Out(s, ErrInvalidInput, NoResponse, <<EvFindById>>)
        ELSE LET r == startExistingFlow(s, existingFlow, message.DataAddress,
                                        onStart, now)
             IN  Out(r.store, r.err, r.response, <<EvFindById>> \o r.calls))

TerminateNoDedup(ctx, s, processID, reason, onTerminate, now) ==
    LET found == FindById(s, processID)
        flow == found.flow
        moved == [df |-> [flow EXCEPT !.State = Terminated,
                                      !.StateTimestamp = now,
                                      !.StateCount = @ + 1,
                                      !.ErrorDetail = reason],
                  err |-> Nil]
    IN  IF processID = ""
        THEN Out(s, ErrEmptyProcessID, NoResponse, <<>>)
        ELSE execute(ctx, s,
        IF found.err # Nil
        THEN Out(s, found.err, NoResponse, <<EvFindById>>)
        ELSE IF onTerminate # Nil
        THEN Out(s, onTerminate, NoResponse, <<EvFindById, EvOnTerminate>>)
        ELSE LET saved == Save(s, moved.df)
             IN  Out(saved.store, saved.err, NoResponse,
                     <<EvFindById, EvOnTerminate, EvTransition, EvSave>>))

TerminateRejectsCompleted(ctx, s, processID, reason, onTerminate, now) ==
    LET found == FindById(s, processID)
        flow == found.flow
    IN  IF processID = ""
        THEN Out(s, ErrEmptyProcessID, NoResponse, <<>>)
        ELSE execute(ctx, s,
        IF found.err # Nil
        THEN Out(s, found.err, NoResponse, <<EvFindById>>)
        ELSE IF Terminated = flow.State
        THEN Out(s, Nil, NoResponse, <<EvFindById>>)
        ELSE IF onTerminate # Nil
        THEN Out(s, onTerminate, NoResponse, <<EvFindById, EvOnTerminate>>)
        ELSE LET moved == IF flow.State = Completed
                          THEN [df |-> flow, err |-> ErrInvalidTransition]
                          ELSE TransitionToTerminatedReason(flow, reason, now)
             IN  IF moved.err # Nil
                 THEN Out(s, moved.err, NoResponse,
                          <<EvFindById, EvOnTerminate, EvTransition>>)
                 ELSE LET saved == Save(s, moved.df)
                      IN  Out(saved.store, saved.err, NoResponse,
                              <<EvFindById, EvOnTerminate, EvTransition,
                                EvSave>>))

TerminateTransitionsFirst(ctx, s, processID, reason, onTerminate, now) ==
    LET found == FindById(s, processID)
        flow == found.flow
    IN  IF processID = ""
        THEN Out(s, ErrEmptyProcessID, NoResponse, <<>>)
        ELSE execute(ctx, s,
        IF found.err # Nil
        THEN Out(s, found.err, NoResponse, <<EvFindById>>)
        ELSE IF Terminated = flow.State
        THEN Out(s, Nil, NoResponse, <<EvFindById>>)
        ELSE LET moved == TransitionToTerminatedReason(flow, reason, now)
             IN  IF moved.err # Nil
                 THEN Out(s, moved.err, NoResponse,
                          <<EvFindById, EvTransition>>)
                 ELSE IF onTerminate # Nil
                 THEN Out(s, onTerminate, NoResponse,
                          <<EvFindById, EvTransition, EvOnTerminate>>)
                 ELSE LET saved == Save(s, moved.df)
                      IN  Out(saved.store, saved.err, NoResponse,
                              <<EvFindById, EvTransition, EvOnTerminate,
                                EvSave>>))

Terminate(ctx, s, processID, reason, onTerminate, now) ==
    LET found == FindById(s, processID)
        flow == found.flow
    IN  IF processID = ""
        THEN Out(s, ErrEmptyProcessID, NoResponse, <<>>)
        ELSE execute(ctx, s,
        IF found.err # Nil
        THEN Out(s, found.err, NoResponse, <<EvFindById>>)
        ELSE IF Terminated = flow.State
        THEN Out(s, Nil, NoResponse, <<EvFindById>>)
        ELSE IF onTerminate # Nil
        THEN Out(s, onTerminate, NoResponse, <<EvFindById, EvOnTerminate>>)
        ELSE LET moved == TransitionToTerminatedReason(flow, reason, now)
             IN  IF moved.err # Nil
                 THEN Out(s, moved.err, NoResponse,
                          <<EvFindById, EvOnTerminate, EvTransition>>)
                 ELSE LET saved == Save(s, moved.df)
                      IN  Out(saved.store, saved.err, NoResponse,
                              <<EvFindById, EvOnTerminate, EvTransition,
                                EvSave>>))

SuspendFromAny(ctx, s, processID, reason, onSuspend, now) ==
    LET found == FindById(s, processID)
        flow == found.flow
    IN  IF processID = ""
        THEN Out(s, ErrEmptyProcessID, NoResponse, <<>>)
        ELSE execute(ctx, s,
        IF found.err # Nil
        THEN Out(s, found.err, NoResponse, <<EvFindById>>)
        ELSE IF Suspended = flow.State
        THEN Out(s, Nil, NoResponse, <<EvFindById>>)
        ELSE IF onSuspend # Nil
        THEN Out(s, onSuspend, NoResponse, <<EvFindById, EvOnSuspend>>)
        ELSE LET moved == [flow EXCEPT !.State = Suspended,
                                       !.StateTimestamp = now,
                                       !.StateCount = @ + 1,
                                       !.ErrorDetail = reason]
                 saved == Save(s, moved)
             IN  Out(saved.store, saved.err, NoResponse,
                     <<EvFindById, EvOnSuspend, EvTransition, EvSave>>))

SuspendSavesBeforeHandler(ctx, s, processID, reason, onSuspend, now) ==
    LET found == FindById(s, processID)
        flow == found.flow
    IN  IF processID = ""
        THEN Out(s, ErrEmptyProcessID, NoResponse, <<>>)
        ELSE execute(ctx, s,
        IF found.err # Nil
        THEN Out(s, found.err, NoResponse, <<EvFindById>>)
        ELSE IF Suspended = flow.State
        THEN Out(s, Nil, NoResponse, <<EvFindById>>)
        ELSE LET moved == TransitionToSuspendedReason(flow, reason, now)
             IN  IF moved.err # Nil
                 THEN Out(s, moved.err, NoResponse,
                          <<EvFindById, EvTransition>>)
                 ELSE LET saved == Save(s, moved.df)
                      IN  Out(saved.store,
                              IF saved.err # Nil THEN saved.err ELSE onSuspend,
                              NoResponse,
                              <<EvFindById, EvTransition, EvSave,
                                EvOnSuspend>>))

SuspendValidatesFirst(ctx, s, processID, reason, onSuspend, now) ==
    LET found == FindById(s, processID)
        flow == found.flow
    IN  IF processID = ""
        THEN Out(s, ErrEmptyProcessID, NoResponse, <<>>)
        ELSE execute(ctx, s,
        IF found.err # Nil
        THEN Out(s, found.err, NoResponse, <<EvFindById>>)
        ELSE IF Suspended = flow.State
        THEN Out(s, Nil, NoResponse, <<EvFindById>>)
        ELSE IF flow.State # Started
        THEN Out(s, ErrInvalidTransition, NoResponse, <<EvFindById>>)
        ELSE IF onSuspend # Nil
        THEN Out(s, onSuspend, NoResponse, <<EvFindById, EvOnSuspend>>)
        ELSE LET moved == TransitionToSuspendedReason(flow, reason, now)
                 saved == Save(s, moved.df)
             IN  Out(saved.store, saved.err, NoResponse,
                     <<EvFindById, EvOnSuspend, EvTransition, EvSave>>))

Suspend(ctx, s, processID, reason, onSuspend, now) ==
    LET found == FindById(s, processID)
        flow == found.flow
    IN  IF processID = ""
        THEN Out(s, ErrEmptyProcessID, NoResponse, <<>>)
        ELSE execute(ctx, s,
        IF found.err # Nil
        THEN Out(s, found.err, NoResponse, <<EvFindById>>)
        ELSE IF Suspended = flow.State
        THEN Out(s, Nil, NoResponse, <<EvFindById>>)
        ELSE IF onSuspend # Nil
        THEN Out(s, onSuspend, NoResponse, <<EvFindById, EvOnSuspend>>)
        ELSE LET moved == TransitionToSuspendedReason(flow, reason, now)
             IN  IF moved.err # Nil
                 THEN Out(s, moved.err, NoResponse,
                          <<EvFindById, EvOnSuspend, EvTransition>>)
                 ELSE LET saved == Save(s, moved.df)
                      IN  Out(saved.store, saved.err, NoResponse,
                              <<EvFindById, EvOnSuspend, EvTransition,
                                EvSave>>))

CompleteNoDedup(ctx, s, dataflowID, onComplete, now) ==
    LET found == FindById(s, dataflowID)
        flow == found.flow
        err == found.err
    IN  IF dataflowID = ""
        THEN Out(s, ErrEmptyProcessID, NoResponse, <<>>)
        ELSE execute(ctx, s,
        IF err # Nil
        THEN Out(s, err, NoResponse, <<EvFindById>>)
        ELSE LET moved == TransitionToCompleted(flow, now)
             IN  IF moved.err # Nil
                 THEN Out(s, moved.err, NoResponse,
                          <<EvFindById, EvTransition>>)
                 ELSE IF onComplete # Nil
                 THEN Out(s, onComplete, NoResponse,
                          <<EvFindById, EvTransition, EvOnComplete>>)
                 ELSE LET saved == Save(s, moved.df)
                      IN  Out(saved.store, Nil, NoResponse,
                              <<EvFindById, EvTransition, EvOnComplete,
                                EvSave>>))

CompleteHandlerFirst(ctx, s, dataflowID, onComplete, now) ==
    LET found == FindById(s, dataflowID)
        flow == found.flow
        err == found.err
    IN  IF dataflowID = ""
        THEN Out(s, ErrEmptyProcessID, NoResponse, <<>>)
        ELSE execute(ctx, s,
        IF err # Nil
        THEN Out(s, err, NoResponse, <<EvFindById>>)
        ELSE IF flow.State = Completed
        THEN Out(s, Nil, NoResponse, <<EvFindById>>)
        ELSE IF onComplete # Nil
        THEN Out(s, onComplete, NoResponse, <<EvFindById, EvOnComplete>>)
        ELSE LET moved == TransitionToCompleted(flow, now)
             IN  IF moved.err # Nil
                 THEN Out(s, moved.err, NoResponse,
                          <<EvFindById, EvOnComplete, EvTransition>>)
                 ELSE LET saved == Save(s, moved.df)
                      IN  Out(saved.store, Nil, NoResponse,
                              <<EvFindById, EvOnComplete, EvTransition,
                                EvSave>>))

CompleteSavesFirst(ctx, s, dataflowID, onComplete, now) ==
    LET found == FindById(s, dataflowID)
        flow == found.flow
        err == found.err
    IN  IF dataflowID = ""
        THEN Out(s, ErrEmptyProcessID, NoResponse, <<>>)
        ELSE execute(ctx, s,
        IF err # Nil
        THEN Out(s, err, NoResponse, <<EvFindById>>)
        ELSE IF flow.State = Completed
        THEN Out(s, Nil, NoResponse, <<EvFindById>>)
        ELSE LET moved == TransitionToCompleted(flow, now)
                 saved == Save(s, moved.df)
             IN  IF moved.err # Nil
                 THEN Out(s, moved.err, NoResponse,
                          <<EvFindById, EvTransition>>)
                 ELSE Out(saved.store, onComplete, NoResponse,
                          <<EvFindById, EvTransition, EvSave,
                            EvOnComplete>>))

Complete(ctx, s, dataflowID, onComplete, now) ==
    LET found == FindById(s, dataflowID)
        flow == found.flow
        err == found.err
    IN  IF dataflowID = ""
        THEN Out(s, ErrEmptyProcessID, NoResponse, <<>>)
        ELSE execute(ctx, s,
        IF err # Nil
        THEN Out(s, err, NoResponse, <<EvFindById>>)
        ELSE IF flow.State = Completed
        THEN Out(s, Nil, NoResponse, <<EvFindById>>)
        ELSE LET moved == TransitionToCompleted(flow, now)
             IN  IF moved.err # Nil
                 THEN Out(s, moved.err, NoResponse,
                          <<EvFindById, EvTransition>>)
                 ELSE IF onComplete # Nil
                 THEN Out(s, onComplete, NoResponse,
                          <<EvFindById, EvTransition, EvOnComplete>>)
                 ELSE LET saved == Save(s, moved.df)
                          storeErr == saved.err
                      IN  \* the code tests err, which is nil here, not storeErr
                          Out(saved.store, IF err # Nil THEN storeErr ELSE Nil,
                              NoResponse,
                              <<EvFindById, EvTransition, EvOnComplete,
                                EvSave>>))

---------------------------------------------------------------------------
(* SpecEntity: a DataFlow value and the transitions called on it. *)

FlowIds == {"a"}

Tick ==
    /\ clock < MaxClock
    /\ clock' = clock + 1
    /\ UNCHANGED <<df, call, base, effective, store, last, procs>>

InitEntity ==
    /\ clock = 1
    /\ df \in [ID : {"a"}, Consumer : BOOLEAN, State : States,
               StateCount : 0..MaxInitCount, StateTimestamp : 0..1,
               ErrorDetail : {"", "r1"}]
    /\ call = NoCall
    /\ base = df.StateCount
    /\ effective = 0
    /\ store = [id \in FlowIds |-> NoFlow]
    /\ last = NoOp
    /\ procs = <<>>

Transition(target, reason) ==
    /\ df.StateCount < MaxCount
    /\ LET r == TransitionTo(target, df, reason, clock) IN
       /\ df' = r.df
       /\ call' = [target |-> target, reason |-> reason, before |-> df,
                   err |-> r.err]
       /\ effective' = IF r.err = Nil /\ df.State # target
                       THEN effective + 1 ELSE effective
    /\ UNCHANGED <<clock, base, store, last, procs>>

NextEntity ==
    \/ Tick
    \/ \E target \in Targets, reason \in Reasons : Transition(target, reason)

SpecEntity == InitEntity /\ [][NextEntity]_vars

---------------------------------------------------------------------------
(* Spec: the engine called one operation at a time on the in-memory store. *)
(* Flows reach the store through the engine, or through a Create by the    *)
(* deployer of a flow built in any state (as the integration tests seed    *)
(* the store).                                                             *)

OpIds == FlowIds \cup {""}

(* The states a processor's response carries: the two each operation     *)
(* accepts and one that none accepts.                                      *)
ResponseStates == {Preparing, Prepared, Starting, Started, Completed}

ProcOutcomes ==
    [State : ResponseStates, err : {Nil}]
    \cup {[State |-> NoResponse, err |-> ErrProcessor]}

HandlerOutcomes == {Nil, ErrProcessor}

Pre(id) == IF id \in FlowIds THEN store[id] ELSE NoFlow

Record(op, ctx, id, r, complete, proc, reason, addr) ==
    [op |-> op, ctx |-> ctx, id |-> id, pre |-> Pre(id), err |-> r.err,
     response |-> r.response, calls |-> r.calls, complete |-> complete,
     proc |-> proc, reason |-> reason, addr |-> addr]

Init ==
    /\ clock = 1
    /\ store = [id \in FlowIds |-> NoFlow]
    /\ last = NoOp
    /\ df = NoFlow
    /\ call = NoCall
    /\ base = 0
    /\ effective = 0
    /\ procs = <<>>

EngineUnchanged == UNCHANGED <<clock, df, call, base, effective, procs>>

StoreCreate(id, state, consumer) ==
    /\ LET built == Build(id, consumer, state, TRUE, clock)
           r == Create(store, built.flow)
       IN  /\ store' = r.store
           /\ last' = [op |-> "Create", id |-> id, pre |-> Pre(id),
                       err |-> r.err]
    /\ EngineUnchanged

DoPrepare(ctx, id, complete, onPrepare) ==
    /\ LET r == Prepare(ctx, store, [ProcessID |-> id, Complete |-> complete],
                        onPrepare, clock)
       IN  /\ store' = r.store
           /\ last' = Record("Prepare", ctx, id, r, complete, onPrepare, "",
                             NoAddress)
    /\ EngineUnchanged

DoStart(ctx, id, complete, addr, onStart) ==
    /\ LET r == Start(ctx, store, [ProcessID |-> id, Complete |-> complete,
                              DataAddress |-> addr], onStart, clock)
       IN  /\ store' = r.store
           /\ last' = Record("Start", ctx, id, r, complete, onStart, "", addr)
    /\ EngineUnchanged

DoStartById(ctx, id, addr, onStart) ==
    /\ LET r == StartById(ctx, store, id, [DataAddress |-> addr], onStart, clock)
       IN  /\ store' = r.store
           /\ last' = Record("StartById", ctx, id, r, TRUE, onStart, "", addr)
    /\ EngineUnchanged

DoTerminate(ctx, id, reason, onTerminate) ==
    /\ LET r == Terminate(ctx, store, id, reason, onTerminate, clock)
       IN  /\ store' = r.store
           /\ last' = Record("Terminate", ctx, id, r, TRUE, onTerminate, reason,
                             NoAddress)
    /\ EngineUnchanged

DoSuspend(ctx, id, reason, onSuspend) ==
    /\ LET r == Suspend(ctx, store, id, reason, onSuspend, clock)
       IN  /\ store' = r.store
           /\ last' = Record("Suspend", ctx, id, r, TRUE, onSuspend, reason,
                             NoAddress)
    /\ EngineUnchanged

DoComplete(ctx, id, onComplete) ==
    /\ LET r == Complete(ctx, store, id, onComplete, clock)
       IN  /\ store' = r.store
           /\ last' = Record("Complete", ctx, id, r, TRUE, onComplete, "",
                             NoAddress)
    /\ EngineUnchanged

(* Calls made with a live context, with every input; calls made with a    *)
(* context that is already cancelled, with the default processors.         *)
Next ==
    \/ Tick
    \/ \E id \in FlowIds, state \in States, consumer \in BOOLEAN :
          StoreCreate(id, state, consumer)
    \/ \E id \in OpIds, complete \in BOOLEAN, p \in ProcOutcomes :
          DoPrepare(Live, id, complete, p)
    \/ \E id \in OpIds, complete \in BOOLEAN, addr \in DataAddresses,
          p \in ProcOutcomes : DoStart(Live, id, complete, addr, p)
    \/ \E id \in OpIds, addr \in DataAddresses, p \in ProcOutcomes :
          DoStartById(Live, id, addr, p)
    \/ \E id \in OpIds, reason \in Reasons, h \in HandlerOutcomes :
          DoTerminate(Live, id, reason, h)
    \/ \E id \in OpIds, reason \in Reasons, h \in HandlerOutcomes :
          DoSuspend(Live, id, reason, h)
    \/ \E id \in OpIds, h \in HandlerOutcomes : DoComplete(Live, id, h)
    \/ \E id \in OpIds : DoPrepare(Cancelled, id, TRUE, DefaultPrepare)
    \/ \E id \in OpIds : DoStart(Cancelled, id, TRUE, NoAddress, DefaultStart)
    \/ \E id \in OpIds : DoStartById(Cancelled, id, NoAddress, DefaultStart)
    \/ \E id \in OpIds : DoTerminate(Cancelled, id, "r1", Nil)
    \/ \E id \in OpIds : DoSuspend(Cancelled, id, "r1", Nil)
    \/ \E id \in OpIds : DoComplete(Cancelled, id, Nil)

Spec == Init /\ [][Next]_vars

TypeOK ==
    /\ clock \in 1..(MaxClock + 1)
    /\ \A id \in FlowIds :
          store[id] # NoFlow =>
             /\ store[id].ID = id
             /\ store[id].State \in States
             /\ store[id].StateCount \in Nat

---------------------------------------------------------------------------
(* C1-C4: the entity state machine *)

Permitted ==
    {<<Uninitialized, Preparing>>,
     <<Uninitialized, Prepared>>, <<Preparing, Prepared>>,
     <<Uninitialized, Starting>>, <<Prepared, Starting>>,
     <<Uninitialized, Started>>, <<Prepared, Started>>,
     <<Starting, Started>>, <<Suspended, Started>>,
     <<Started, Suspended>>,
     <<Started, Completed>>}
    \cup {<<s, Terminated>> : s \in States}

\* C1: a TransitionToT call on a flow in state S succeeds exactly when S = T
\* or (S,T) is a permitted pair, a successful call leaves the flow in T, and
\* every other call fails with the invalid-transition error.
C1_TransitionMatrix ==
    call # NoCall =>
        /\ (call.err = Nil) <=>
              (call.before.State = call.target
               \/ <<call.before.State, call.target>> \in Permitted)
        /\ call.err = Nil => df.State = call.target
        /\ call.err # Nil => call.err = ErrInvalidTransition

C1_Witness ==
    /\ call # NoCall
    /\ call.before.State = Completed
    /\ call.target = Started
    /\ call.err = ErrInvalidTransition

\* C2: a rejected TransitionToT call leaves the entity identical: state,
\* stateCount, stateTimestamp and errorDetail (and every other field).
C2_RejectedUnchanged ==
    (call # NoCall /\ call.err # Nil) => df = call.before

C2_Witness ==
    /\ call # NoCall
    /\ call.err # Nil
    /\ call.target = Suspended
    /\ call.before.State = Prepared
    /\ clock > call.before.StateTimestamp
    /\ call.reason # call.before.ErrorDetail

\* C3: a self-transition (target equal to the current state) succeeds and
\* leaves stateCount, stateTimestamp and errorDetail unchanged, also for
\* TransitionToSuspended(reason) and TransitionToTerminated(reason).
C3_SelfTransitionNoop ==
    (call # NoCall /\ call.before.State = call.target) =>
        /\ call.err = Nil
        /\ df.State = call.target
        /\ df.StateCount = call.before.StateCount
        /\ df.StateTimestamp = call.before.StateTimestamp
        /\ df.ErrorDetail = call.before.ErrorDetail

C3_Witness ==
    /\ call # NoCall
    /\ call.before.State = Terminated
    /\ call.target = Terminated
    /\ call.reason # call.before.ErrorDetail
    /\ clock > call.before.StateTimestamp

\* C4: an effective transition (source different from target, permitted)
\* adds exactly 1 to stateCount and sets stateTimestamp to a value not
\* smaller than the previous one; stateCount never decreases and equals its
\* initial value plus the number of effective transitions performed.
C4_CounterAndTimestamp ==
    /\ df.StateCount = base + effective
    /\ call # NoCall =>
          /\ df.StateCount >= call.before.StateCount
          /\ (call.err = Nil /\ call.before.State # call.target) =>
                /\ df.StateCount = call.before.StateCount + 1
                /\ df.StateTimestamp >= call.before.StateTimestamp

C4_Witness ==
    /\ call # NoCall
    /\ call.err = Nil
    /\ call.before.State = Suspended
    /\ call.target = Started
    /\ effective >= 2
    /\ df.StateTimestamp > call.before.StateTimestamp

---------------------------------------------------------------------------
(* C5, C7-C10: the engine, one call at a time.  The claims about what an  *)
(* operation does are about calls made with a live context; a call made   *)
(* with a context that is already cancelled is C19.                        *)

EngineOps ==
    {"Prepare", "Start", "StartById", "Suspend", "Terminate", "Complete"}

Has(calls, e) == \E i \in 1..Len(calls) : calls[i] = e
Count(calls, e) == Cardinality({i \in 1..Len(calls) : calls[i] = e})
Stored(s) == {id \in FlowIds : s[id] # NoFlow}

\* C5: once the persisted state of a flow is Terminated, every engine
\* operation on that id leaves the stored flow as it is; Terminate succeeds
\* and Prepare, Start, StartById, Suspend and Complete fail.
C5_TerminatedAbsorbing ==
    [][\A id \in FlowIds :
          (store[id] # NoFlow /\ store[id].State = Terminated) =>
             /\ store'[id] = store[id]
             /\ (clock' = clock /\ last'.op \in EngineOps /\ last'.id = id
                 /\ last'.ctx = Live) =>
                   ((last'.err = Nil) <=> (last'.op = "Terminate"))]_vars

C5_Witness ==
    /\ last.op = "Complete"
    /\ last.pre # NoFlow
    /\ last.pre.State = Terminated
    /\ last.pre.ErrorDetail = "r1"
    /\ last.err = ErrInvalidTransition
    /\ store[last.id] = last.pre

\* C7: Prepare for an id whose stored flow is Preparing or Prepared is a
\* retry: onPrepare is invoked with Duplicate=true (never with
\* Duplicate=false), Create is never called and, when the processor returns
\* no error, Save is the last call and the call succeeds; the processor's
\* response is returned; the set of stored flows and the stored flow's state
\* and stateCount are as before the call.
C7_PrepareRetry ==
    (/\ last.op = "Prepare"
     /\ last.ctx = Live
     /\ last.pre # NoFlow
     /\ last.pre.State \in {Preparing, Prepared}) =>
        /\ Has(last.calls, EvOnPrepare(TRUE))
        /\ ~Has(last.calls, EvOnPrepare(FALSE))
        /\ ~Has(last.calls, EvCreate)
        /\ last.proc.err = Nil =>
              /\ last.err = Nil
              /\ last.calls[Len(last.calls)] = EvSave
              /\ Count(last.calls, EvSave) = 1
        /\ last.response = last.proc.State
        /\ store[last.id] # NoFlow
        /\ store[last.id].State = last.pre.State
        /\ store[last.id].StateCount = last.pre.StateCount

C7_Witness ==
    /\ last.op = "Prepare"
    /\ last.pre # NoFlow
    /\ last.pre.State = Preparing
    /\ last.proc = DefaultPrepare
    /\ last.err = Nil
    /\ last.response = Prepared
    /\ store[last.id].State = Preparing

\* C8: Prepare for a non-empty id with no stored flow, with a message the
\* flow builder accepts, invokes onPrepare with Duplicate=false; when the
\* processor answers Preparing or Prepared without error, exactly one Create
\* stores a flow with that id, consumer=true and the response's state, and
\* the response is returned.
C8_PrepareNew ==
    (/\ last.op = "Prepare"
     /\ last.ctx = Live
     /\ last.id # ""
     /\ last.pre = NoFlow
     /\ last.complete) =>
        /\ Has(last.calls, EvOnPrepare(FALSE))
        /\ ~Has(last.calls, EvOnPrepare(TRUE))
        /\ (last.proc.err = Nil /\ last.proc.State \in {Preparing, Prepared}) =>
              /\ last.err = Nil
              /\ Count(last.calls, EvCreate) = 1
              /\ ~Has(last.calls, EvSave)
              /\ Stored(store) = {last.id}
              /\ store[last.id].ID = last.id
              /\ store[last.id].Consumer = TRUE
              /\ store[last.id].State = last.proc.State
              /\ last.response = last.proc.State

C8_Witness ==
    /\ last.op = "Prepare"
    /\ last.pre = NoFlow
    /\ last.proc = DefaultPrepare
    /\ last.err = Nil
    /\ store[last.id] # NoFlow
    /\ store[last.id].State = Prepared
    /\ store[last.id].Consumer

\* C9: Prepare for an id whose stored flow is in any state other than
\* Preparing or Prepared fails with Conflict, does not invoke onPrepare and
\* writes nothing: the stored flow is unchanged.
C9_PrepareConflict ==
    (/\ last.op = "Prepare"
     /\ last.ctx = Live
     /\ last.pre # NoFlow
     /\ last.pre.State \notin {Preparing, Prepared}) =>
        /\ last.err = ErrConflict
        /\ ~Has(last.calls, EvOnPrepare(TRUE))
        /\ ~Has(last.calls, EvOnPrepare(FALSE))
        /\ ~Has(last.calls, EvCreate)
        /\ ~Has(last.calls, EvSave)
        /\ store[last.id] = last.pre

C9_Witness ==
    /\ last.op = "Prepare"
    /\ last.pre # NoFlow
    /\ last.pre.State = Started
    /\ last.proc = DefaultPrepare
    /\ last.err = ErrConflict

\* C10: Start for a non-empty id with no stored flow, with a message the
\* flow builder accepts, invokes onStart with Duplicate=false and the
\* message's data address; when the processor answers Starting or Started
\* without error, exactly one Create stores a flow with that id,
\* consumer=false and the response's state; with the default processor the
\* stored flow is Started and response.state = Started.
C10_StartNew ==
    (/\ last.op = "Start"
     /\ last.ctx = Live
     /\ last.id # ""
     /\ last.pre = NoFlow
     /\ last.complete) =>
        /\ Has(last.calls, EvOnStart(FALSE, last.addr))
        /\ \A a \in DataAddresses : ~Has(last.calls, EvOnStart(TRUE, a))
        /\ (last.proc.err = Nil /\ last.proc.State \in {Starting, Started}) =>
              /\ last.err = Nil
              /\ Count(last.calls, EvCreate) = 1
              /\ ~Has(last.calls, EvSave)
              /\ Stored(store) = {last.id}
              /\ store[last.id].ID = last.id
              /\ store[last.id].Consumer = FALSE
              /\ store[last.id].State = last.proc.State
              /\ last.response = last.proc.State
        /\ last.proc = DefaultStart =>
              /\ store[last.id] # NoFlow
              /\ store[last.id].State = Started
              /\ last.response = Started

C10_Witness ==
    /\ last.op = "Start"
    /\ last.pre = NoFlow
    /\ last.addr = "da1"
    /\ last.proc = DefaultStart
    /\ last.err = Nil
    /\ store[last.id] # NoFlow
    /\ store[last.id].State = Started
    /\ ~store[last.id].Consumer

---------------------------------------------------------------------------
(* C11-C16: what each engine operation does to the stored flow *)

StepOf(op) == clock' = clock /\ last'.op = op

OnStartCalled(calls) ==
    \E d \in BOOLEAN, a \in DataAddresses : Has(calls, EvOnStart(d, a))

Writes(calls) == Has(calls, EvSave) \/ Has(calls, EvCreate)

\* C11: StartById fails with NotFound when no flow with the id is stored and
\* with InvalidInput when the stored flow has consumer=false; in both cases
\* onStart is not invoked and the store is left as it was.
C11_StartByIdRejects ==
    [][(/\ StepOf("StartById")
        /\ last'.ctx = Live
        /\ (Pre(last'.id) = NoFlow \/ ~Pre(last'.id).Consumer)) =>
          /\ last'.err = IF Pre(last'.id) = NoFlow THEN ErrNotFound
                         ELSE ErrInvalidInput
          /\ last'.response = NoResponse
          /\ ~OnStartCalled(last'.calls)
          /\ ~Writes(last'.calls)
          /\ store' = store]_vars

C11_Witness ==
    /\ last.op = "StartById"
    /\ last.pre # NoFlow
    /\ ~last.pre.Consumer
    /\ last.pre.State = Prepared
    /\ last.proc = DefaultStart
    /\ last.err = ErrInvalidInput
    /\ store[last.id] = last.pre

\* C12: Suspend(id, reason) with a non-empty id: with no stored flow it
\* fails with NotFound; on a stored flow it succeeds only from Started or
\* Suspended; from Started, when onSuspend returns no error, the persisted
\* flow becomes Suspended with errorDetail = reason; from every state other
\* than Started and Suspended it fails (with InvalidTransition when
\* onSuspend returns no error) and the persisted flow is unchanged.
C12_Suspend ==
    (last.op = "Suspend" /\ last.ctx = Live /\ last.id # "") =>
        /\ last.pre = NoFlow =>
              /\ last.err = ErrNotFound
              /\ store[last.id] = NoFlow
        /\ (last.pre # NoFlow /\ last.err = Nil) =>
              last.pre.State \in {Started, Suspended}
        /\ (last.pre # NoFlow /\ last.pre.State = Started
            /\ last.proc = Nil) =>
              /\ last.err = Nil
              /\ store[last.id].State = Suspended
              /\ store[last.id].ErrorDetail = last.reason
              /\ store[last.id].StateCount = last.pre.StateCount + 1
        /\ (last.pre # NoFlow
            /\ last.pre.State \notin {Started, Suspended}) =>
              /\ last.err # Nil
              /\ last.proc = Nil => last.err = ErrInvalidTransition
              /\ store[last.id] = last.pre

C12_Witness ==
    /\ last.op = "Suspend"
    /\ last.pre # NoFlow
    /\ last.pre.State = Started
    /\ last.pre.ErrorDetail = ""
    /\ last.reason = "r2"
    /\ last.err = Nil
    /\ store[last.id].State = Suspended
    /\ store[last.id].ErrorDetail = "r2"

\* C13: Terminate(id, reason) with a non-empty id: on a stored flow in any
\* state but Terminated, when onTerminate returns no error, it succeeds and
\* the persisted flow is Terminated with errorDetail = reason; on a flow
\* already Terminated it succeeds and changes nothing; with no stored flow
\* it fails with NotFound.
C13_Terminate ==
    (last.op = "Terminate" /\ last.ctx = Live /\ last.id # "") =>
        /\ last.pre = NoFlow =>
              /\ last.err = ErrNotFound
              /\ store[last.id] = NoFlow
        /\ (last.pre # NoFlow /\ last.pre.State # Terminated
            /\ last.proc = Nil) =>
              /\ last.err = Nil
              /\ store[last.id].State = Terminated
              /\ store[last.id].ErrorDetail = last.reason
              /\ store[last.id].StateCount = last.pre.StateCount + 1
        /\ (last.pre # NoFlow /\ last.pre.State = Terminated) =>
              /\ last.err = Nil
              /\ store[last.id] = last.pre

C13_Witness ==
    /\ last.op = "Terminate"
    /\ last.pre # NoFlow
    /\ last.pre.State = Completed
    /\ last.reason = "r1"
    /\ last.err = Nil
    /\ store[last.id].State = Terminated
    /\ store[last.id].ErrorDetail = "r1"

\* C14: Suspend on a Suspended flow, Terminate on a Terminated flow and
\* Complete on a Completed flow return success without invoking the handler
\* and without a store write; the stored flow is unchanged.
C14_AlreadyInTarget ==
    (/\ last.op \in {"Suspend", "Terminate", "Complete"}
     /\ last.ctx = Live
     /\ last.pre # NoFlow
     /\ last.pre.State = (CASE last.op = "Suspend" -> Suspended
                            [] last.op = "Terminate" -> Terminated
                            [] last.op = "Complete" -> Completed)) =>
        /\ last.err = Nil
        /\ last.calls = <<EvFindById>>
        /\ store[last.id] = last.pre

C14_Witness ==
    /\ last.op = "Suspend"
    /\ last.pre # NoFlow
    /\ last.pre.State = Suspended
    /\ last.pre.ErrorDetail = "r1"
    /\ last.reason = "r2"
    /\ last.proc = ErrProcessor
    /\ last.err = Nil
    /\ store[last.id] = last.pre

\* C15: Complete(id) with a non-empty id fails with NotFound when no flow
\* is stored; on a flow in Started, when onComplete returns no error, it
\* persists the flow as Completed; on a flow in any state other than Started
\* or Completed it fails with InvalidTransition, does not invoke onComplete
\* and leaves the stored flow unchanged.
C15_Complete ==
    (last.op = "Complete" /\ last.ctx = Live /\ last.id # "") =>
        /\ last.pre = NoFlow =>
              /\ last.err = ErrNotFound
              /\ store[last.id] = NoFlow
        /\ (last.pre # NoFlow /\ last.pre.State = Started
            /\ last.proc = Nil) =>
              /\ last.err = Nil
              /\ store[last.id].State = Completed
              /\ store[last.id].StateCount = last.pre.StateCount + 1
              /\ store[last.id].ErrorDetail = last.pre.ErrorDetail
        /\ (last.pre # NoFlow
            /\ last.pre.State \notin {Started, Completed}) =>
              /\ last.err = ErrInvalidTransition
              /\ ~Has(last.calls, EvOnComplete)
              /\ ~Writes(last.calls)
              /\ store[last.id] = last.pre

C15_Witness ==
    /\ last.op = "Complete"
    /\ last.pre # NoFlow
    /\ last.pre.State = Prepared
    /\ last.proc = ErrProcessor
    /\ last.err = ErrInvalidTransition
    /\ store[last.id] = last.pre

ProcessorCalled(calls) ==
    \/ \E d \in BOOLEAN : Has(calls, EvOnPrepare(d))
    \/ OnStartCalled(calls)
    \/ Has(calls, EvOnTerminate)
    \/ Has(calls, EvOnSuspend)
    \/ Has(calls, EvOnComplete)

ProcessorFailed(l) ==
    IF l.op \in {"Prepare", "Start", "StartById"}
    THEN l.proc.err # Nil
    ELSE l.proc # Nil

\* C16: when the processor or handler an engine operation invokes returns
\* an error, the operation returns an error and the store is as before the
\* call: no flow is created and no stored flow is changed.
C16_ProcessorErrorAborts ==
    [][(/\ clock' = clock
        /\ last'.op \in EngineOps
        /\ ProcessorCalled(last'.calls)
        /\ ProcessorFailed(last')) =>
          /\ last'.err # Nil
          /\ ~Writes(last'.calls)
          /\ store' = store]_vars

C16_Witness ==
    /\ last.op = "Complete"
    /\ last.pre # NoFlow
    /\ last.pre.State = Started
    /\ last.proc = ErrProcessor
    /\ Has(last.calls, EvOnComplete)
    /\ last.err = ErrProcessor
    /\ store[last.id] = last.pre

\* C19: an engine operation called with a non-empty id and a context that
\* is already cancelled returns the cancellation error and does no work: no
\* store operation is called, no processor or handler is invoked, no
\* response is returned and the store is as before.
C19_CancelledContext ==
    (/\ last.op \in EngineOps
     /\ last.ctx = Cancelled
     /\ last.id # "") =>
        /\ last.err = ErrCanceled
        /\ last.response = NoResponse
        /\ last.calls = <<>>
        /\ store[last.id] = last.pre

C19_Witness ==
    /\ last.op = "Terminate"
    /\ last.ctx = Cancelled
    /\ last.pre # NoFlow
    /\ last.pre.State = Started
    /\ last.err = ErrCanceled
    /\ store[last.id] = last.pre

---------------------------------------------------------------------------
(* SpecConc: two engine calls on the same flow id, each on its own         *)
(* goroutine.  InMemoryTrxContext.Execute calls the unit of work directly  *)
(* and holds no lock; the store locks each FindById and each Save          *)
(* separately.  A call therefore takes two steps: it reads the flow, and   *)
(* later it runs the rest of its unit of work on the flow it read and      *)
(* saves.  The handlers are the defaults (no error).                       *)

ConcOps == {"Terminate", "Suspend", "Complete"}
Workers == {1, 2}
ConcId == "a"
ReasonOf(w) == IF w = 1 THEN "r1" ELSE "r2"

(* The outcome of the Save of a call: none made, or the error returned. *)
NoWrite == "no write"

RunOp(op, s, id, reason, now) ==
    CASE op = "Terminate" -> Terminate(Live, s, id, reason, Nil, now)
      [] op = "Suspend"   -> Suspend(Live, s, id, reason, Nil, now)
      [] op = "Complete"  -> Complete(Live, s, id, Nil, now)

InitConc ==
    /\ clock = 1
    /\ \E state \in States, consumer \in BOOLEAN :
          store = [id \in FlowIds |->
                      Build(id, consumer, state, TRUE, clock).flow]
    /\ \E op1 \in ConcOps, op2 \in ConcOps :
          procs = [origin |-> store,
                   run |-> [w \in Workers |->
                               [op |-> IF w = 1 THEN op1 ELSE op2,
                                pc |-> "start", flow |-> NoFlow,
                                err |-> Nil, write |-> NoWrite]]]
    /\ last = NoOp
    /\ df = NoFlow
    /\ call = NoCall
    /\ base = 0
    /\ effective = 0

(* FindById at the start of the unit of work. *)
ConcFind(w) ==
    /\ procs.run[w].pc = "start"
    /\ LET found == FindById(store, ConcId)
       IN  procs' = [procs EXCEPT
                        !.run[w].flow = found.flow,
                        !.run[w].err = found.err,
                        !.run[w].pc = IF found.err = Nil THEN "found"
                                      ELSE "done"]
    /\ UNCHANGED <<clock, df, call, base, effective, store, last>>

(* The rest of the unit of work, on the flow read earlier; its Save, when  *)
(* it makes one, writes to the store as it is now.                         *)
ConcFinish(w) ==
    /\ procs.run[w].pc = "found"
    /\ LET me == procs.run[w]
           r == RunOp(me.op, [store EXCEPT ![ConcId] = me.flow], ConcId,
                      ReasonOf(w), clock)
           saves == Has(r.calls, EvSave)
           saved == Save(store, r.store[ConcId])
       IN  /\ store' = IF saves THEN saved.store ELSE store
           /\ procs' = [procs EXCEPT
                           !.run[w].pc = "done",
                           !.run[w].write =
                               IF saves THEN saved.err ELSE NoWrite,
                           !.run[w].err =
                               IF saves /\ me.op # "Complete"
                               THEN saved.err ELSE r.err]
    /\ UNCHANGED <<clock, df, call, base, effective, last>>

NextConc ==
    \/ Tick
    \/ \E w \in Workers : ConcFind(w)
    \/ \E w \in Workers : ConcFinish(w)

SpecConc == InitConc /\ [][NextConc]_vars

(* The outcome of running the two calls one after the other, first then    *)
(* second, from the store the run started with.                            *)
Serial(first, second) ==
    LET r1 == RunOp(procs.run[first].op, procs.origin, ConcId,
                    ReasonOf(first), clock)
        r2 == RunOp(procs.run[second].op, r1.store, ConcId,
                    ReasonOf(second), clock)
    IN  [flow |-> r2.store[ConcId],
         errs |-> [w \in Workers |-> IF w = first THEN r1.err ELSE r2.err]]

SameFlow(f, g) ==
    /\ f.State = g.State
    /\ f.StateCount = g.StateCount
    /\ f.ErrorDetail = g.ErrorDetail

AllDone == \A w \in Workers : procs.run[w].pc = "done"

Equals(serial) ==
    /\ SameFlow(store[ConcId], serial.flow)
    /\ \A w \in Workers : procs.run[w].err = serial.errs[w]

\* C6: two engine operations run concurrently on the same flow id end as
\* some serial order of the two would (same persisted flow, same two
\* results), or one of them fails.
C6_Serializable ==
    AllDone =>
        \/ Equals(Serial(1, 2))
        \/ Equals(Serial(2, 1))
        \/ \E w \in Workers : procs.run[w].err # Nil

---------------------------------------------------------------------------
(* SpecTrx: one call of TransactionContext.Execute, for each of the two    *)
(* implementations.  The unit of work makes up to MaxMuts mutations and    *)
(* then returns nil, returns an error, or panics.  A mutation is either a  *)
(* Create/Save through the DataplaneStore or, for DBTransactionContext, an *)
(* INSERT through the *sql.Tx found in the context (as the tests of the    *)
(* transaction context do, into a table of their own).                     *)
(*                                                                         *)
(* store is the flows table as every connection sees it; procs.rows is the *)
(* committed content of the other table and procs.tx the rows inserted     *)
(* through the transaction and not yet committed.                          *)

MaxMuts == 2

DBTransactionContext == "DBTransactionContext"
InMemoryTrxContext == "InMemoryTrxContext"
TrxContexts == {DBTransactionContext, InMemoryTrxContext}

RowValues == {"test1", "test2"}
ErrWork == "forced error"
PanicValue == "forced panic"
NoPanic == "no panic"
Running == "running"
ErrBegin == "failed to begin transaction"
ErrCommit == "failed to commit transaction"
ErrRollback == "operation failed, rollback failed"

(* PostgresStore.Create and Save.  Both run on the *sql.DB pool, not on    *)
(* the transaction of the context.  The INSERT does not set state_count    *)
(* (column default 0) and stamps state_timestamp_ms itself; the UPDATE     *)
(* does not set state_count.  Both read flow.ID first, which panics for a  *)
(* nil flow.  The data addresses are written as JSON text.                 *)
PanicNilFlow == "nil pointer dereference"

toJson(address) == <<"json", address>>
fromJson(json) == json[2]

PgCreate(s, flow, now) ==
    IF flow = NoFlow
    THEN [store |-> s, err |-> PanicNilFlow]
    ELSE IF flow.ID = ""
    THEN [store |-> s, err |-> ErrInvalidInput]
    ELSE IF s[flow.ID] # NoFlow
    THEN [store |-> s, err |-> ErrConflict]
    ELSE [store |-> [s EXCEPT ![flow.ID] =
                        [flow EXCEPT !.StateCount = 0,
                                     !.StateTimestamp = now,
                                     !.SourceDataAddress = toJson(@)]],
          err |-> Nil]

PgSave(s, flow, now) ==
    IF flow = NoFlow
    THEN [store |-> s, err |-> PanicNilFlow]
    ELSE IF flow.ID = ""
    THEN [store |-> s, err |-> ErrInvalidInput]
    ELSE IF s[flow.ID] # NoFlow
    THEN [store |-> [s EXCEPT ![flow.ID] =
                        [flow EXCEPT !.StateCount = s[flow.ID].StateCount,
                                     !.SourceDataAddress = toJson(@)]],
          err |-> Nil]
    ELSE PgCreate(s, flow, now)

(* PostgresStore.FindById: the row scanned into a DataFlow. *)
PgFindById(s, id) ==
    IF id \notin DOMAIN s \/ s[id] = NoFlow
    THEN [flow |-> NoFlow, err |-> ErrNotFound]
    ELSE [flow |-> [s[id] EXCEPT !.SourceDataAddress = fromJson(@)],
          err |-> Nil]

(* PostgresStore.Delete: NotFound when the DELETE affected no row. *)
PgDelete(s, id) ==
    IF id \notin DOMAIN s \/ s[id] = NoFlow
    THEN [store |-> s, err |-> ErrNotFound]
    ELSE [store |-> [s EXCEPT ![id] = NoFlow], err |-> Nil]

StoreWrite(impl, kind, s, flow, now) ==
    IF impl = InMemoryTrxContext
    THEN IF kind = "Create" THEN Create(s, flow) ELSE Save(s, flow)
    ELSE IF kind = "Create" THEN PgCreate(s, flow, now)
         ELSE PgSave(s, flow, now)

(* DBTransactionContext.Execute after the unit of work returned err:      *)
(* Rollback on an error, Commit otherwise; dbFails says that this call to  *)
(* the database fails.  A transaction that is not committed leaves no row. *)
DBExecuteReturn(rows, tx, err, dbFails) ==
    IF err # Nil
    THEN [rows |-> rows, result |-> IF dbFails THEN ErrRollback ELSE err]
    ELSE IF dbFails
    THEN [rows |-> rows, result |-> ErrCommit]
    ELSE [rows |-> rows \cup tx, result |-> Nil]

(* The deferred function of DBTransactionContext.Execute: recover,         *)
(* Rollback, panic again with the recovered value.                         *)
DBExecuteRecoverCommits(rows, tx, p) ==
    [rows |-> rows \cup tx, panic |-> p]

DBExecuteRecover(rows, tx, p) ==
    [rows |-> rows, panic |-> p]

(* InMemoryTrxContext.Execute: return fn(ctx). *)
InMemoryExecuteReturn(err) == err

InitTrx ==
    /\ clock = 1
    /\ \E state \in {Uninitialized, Started} :
          store = [id \in FlowIds |->
                      IF state = Uninitialized THEN NoFlow
                      ELSE Build(id, FALSE, state, TRUE, clock).flow]
    /\ \E impl \in TrxContexts, rows \in SUBSET {"test0"} :
          procs = [impl |-> impl, pc |-> "idle", origin |-> store,
                   rows |-> rows, rows0 |-> rows, tx |-> {}, muts |-> 0,
                   direct |-> 0, unit |-> Running, result |-> Nil,
                   panic |-> NoPanic]
    /\ last = NoOp
    /\ df = NoFlow
    /\ call = NoCall
    /\ base = 0
    /\ effective = 0

TrxUnchanged == UNCHANGED <<clock, df, call, base, effective, last>>

(* Execute is entered; BeginTx of the database may fail. *)
TrxBegin(fails) ==
    /\ procs.pc = "idle"
    /\ fails => procs.impl = DBTransactionContext
    /\ procs' = IF fails
                THEN [procs EXCEPT !.pc = "done", !.result = ErrBegin]
                ELSE [procs EXCEPT !.pc = "work"]
    /\ UNCHANGED store
    /\ TrxUnchanged

(* The unit of work inserts a row through the transaction of the context. *)
TrxInsert(v) ==
    /\ procs.pc = "work"
    /\ procs.impl = DBTransactionContext
    /\ procs.muts < MaxMuts
    /\ procs' = [procs EXCEPT !.tx = @ \cup {v}, !.muts = @ + 1]
    /\ UNCHANGED store
    /\ TrxUnchanged

(* The unit of work creates or saves a flow through the DataplaneStore. *)
TrxStore(kind, state) ==
    /\ procs.pc = "work"
    /\ procs.muts < MaxMuts
    /\ LET flow == Build("a", FALSE, state, TRUE, clock).flow
           r == StoreWrite(procs.impl, kind, store, flow, clock)
       IN  /\ store' = r.store
           /\ procs' = [procs EXCEPT
                           !.muts = @ + 1,
                           !.direct = IF r.err = Nil THEN @ + 1 ELSE @]
    /\ TrxUnchanged

(* The unit of work returns err. *)
TrxReturn(err, dbFails) ==
    /\ procs.pc = "work"
    /\ dbFails => procs.impl = DBTransactionContext
    /\ procs' =
          IF procs.impl = DBTransactionContext
          THEN LET r == DBExecuteReturn(procs.rows, procs.tx, err, dbFails)
               IN  [procs EXCEPT !.pc = "done", !.unit = err,
                                 !.rows = r.rows, !.result = r.result]
          ELSE [procs EXCEPT !.pc = "done", !.unit = err,
                             !.result = InMemoryExecuteReturn(err)]
    /\ UNCHANGED store
    /\ TrxUnchanged

(* The unit of work panics. *)
TrxPanic ==
    /\ procs.pc = "work"
    /\ procs' =
          IF procs.impl = DBTransactionContext
          THEN LET r == DBExecuteRecover(procs.rows, procs.tx, PanicValue)
               IN  [procs EXCEPT !.pc = "done", !.unit = PanicValue,
                                 !.rows = r.rows, !.panic = r.panic]
          ELSE [procs EXCEPT !.pc = "done", !.unit = PanicValue,
                             !.panic = PanicValue]
    /\ UNCHANGED store
    /\ TrxUnchanged

NextTrx ==
    \/ \E fails \in BOOLEAN : TrxBegin(fails)
    \/ \E v \in RowValues : TrxInsert(v)
    \/ \E kind \in {"Create", "Save"}, state \in {Started, Suspended} :
          TrxStore(kind, state)
    \/ \E err \in {Nil, ErrWork}, dbFails \in BOOLEAN : TrxReturn(err, dbFails)
    \/ TrxPanic

SpecTrx == InitTrx /\ [][NextTrx]_vars

TrxDone == procs.pc = "done" /\ procs.unit # Running

\* C17: for both transaction contexts, when the unit of work returns an
\* error (and the database does not fail the Rollback) every mutation it
\* made, through the transaction or through the DataplaneStore, is absent
\* afterwards and Execute returns that error; when it returns nil and
\* Execute returns nil, the rows it inserted are committed.
C17_ExecuteAtomic ==
    TrxDone =>
        /\ (procs.unit = ErrWork /\ procs.result # ErrRollback) =>
              /\ store = procs.origin
              /\ procs.rows = procs.rows0
              /\ procs.result = ErrWork
        /\ (procs.unit = Nil /\ procs.result = Nil) =>
              procs.rows = procs.rows0 \cup procs.tx

---------------------------------------------------------------------------
(* SpecStore: the in-memory store called directly, in any order, with any  *)
(* argument: a nil flow (NoFlow), a flow with an empty id, an id that is   *)
(* stored and one that is not.                                             *)

StoreIds == {"a", "b"}
StoreArgIds == StoreIds \cup {""}

StoreFlows ==
    {NoFlow} \cup
    [ID : StoreArgIds, Consumer : {FALSE}, State : {Started, Suspended},
     StateCount : {1}, StateTimestamp : {1}, ErrorDetail : {""},
     SourceDataAddress : {"da1"}]

InitStore ==
    /\ clock = 1
    /\ store = [id \in StoreIds |-> NoFlow]
    /\ last = NoOp
    /\ df = NoFlow
    /\ call = NoCall
    /\ base = 0
    /\ effective = 0
    /\ procs = <<>>

StoreUnchanged == UNCHANGED <<clock, df, call, base, effective, procs>>

StoreOpFindById(id) ==
    /\ LET r == FindById(store, id)
       IN  last' = [op |-> "FindById", id |-> id, flow |-> r.flow,
                    pre |-> store, err |-> r.err]
    /\ UNCHANGED store
    /\ StoreUnchanged

StoreOpCreate(flow) ==
    /\ LET r == Create(store, flow)
       IN  /\ store' = r.store
           /\ last' = [op |-> "Create", id |-> flow.ID, flow |-> flow,
                       pre |-> store, err |-> r.err]
    /\ StoreUnchanged

StoreOpSave(flow) ==
    /\ LET r == Save(store, flow)
       IN  /\ store' = r.store
           /\ last' = [op |-> "Save", id |-> flow.ID, flow |-> flow,
                       pre |-> store, err |-> r.err]
    /\ StoreUnchanged

StoreOpDelete(id) ==
    /\ LET r == Delete(store, id)
       IN  /\ store' = r.store
           /\ last' = [op |-> "Delete", id |-> id, flow |-> NoFlow,
                       pre |-> store, err |-> r.err]
    /\ StoreUnchanged

NextStore ==
    \/ \E id \in StoreArgIds : StoreOpFindById(id)
    \/ \E flow \in StoreFlows : StoreOpCreate(flow)
    \/ \E flow \in StoreFlows : StoreOpSave(flow)
    \/ \E id \in StoreArgIds : StoreOpDelete(id)

SpecStore == InitStore /\ [][NextStore]_vars

IsStored(s, id) == id \in StoreIds /\ s[id] # NoFlow
BadFlow(flow) == flow = NoFlow \/ flow.ID = ""

\* C20: in-memory store, any sequence of operations.  Create fails with
\* InvalidInput for a nil flow or an empty id and with Conflict when the id
\* is stored, leaving the store unchanged, and otherwise stores the flow.
\* Save fails with InvalidInput for a nil flow or an empty id and with
\* NotFound when the id is absent, creating nothing, and otherwise replaces
\* the flow.  Delete fails with InvalidInput for an empty id and with
\* NotFound for an absent id, and otherwise removes the flow.  FindById
\* returns NotFound exactly for the ids that are not stored, and the stored
\* flow otherwise.
C20_StoreContract ==
    /\ last.op = "Create" =>
          /\ BadFlow(last.flow) =>
                (last.err = ErrInvalidInput /\ store = last.pre)
          /\ (~BadFlow(last.flow) /\ IsStored(last.pre, last.id)) =>
                (last.err = ErrConflict /\ store = last.pre)
          /\ (~BadFlow(last.flow) /\ ~IsStored(last.pre, last.id)) =>
                /\ last.err = Nil
                /\ store = [last.pre EXCEPT ![last.id] = last.flow]
    /\ last.op = "Save" =>
          /\ BadFlow(last.flow) =>
                (last.err = ErrInvalidInput /\ store = last.pre)
          /\ (~BadFlow(last.flow) /\ ~IsStored(last.pre, last.id)) =>
                (last.err = ErrNotFound /\ store = last.pre)
          /\ (~BadFlow(last.flow) /\ IsStored(last.pre, last.id)) =>
                /\ last.err = Nil
                /\ store = [last.pre EXCEPT ![last.id] = last.flow]
    /\ last.op = "Delete" =>
          /\ last.id = "" =>
                (last.err = ErrInvalidInput /\ store = last.pre)
          /\ (last.id # "" /\ ~IsStored(last.pre, last.id)) =>
                (last.err = ErrNotFound /\ store = last.pre)
          /\ IsStored(last.pre, last.id) =>
                /\ last.err = Nil
                /\ store = [last.pre EXCEPT ![last.id] = NoFlow]
    /\ last.op = "FindById" =>
          /\ (last.err = ErrNotFound) <=> ~IsStored(last.pre, last.id)
          /\ IsStored(last.pre, last.id) =>
                (last.err = Nil /\ last.flow = last.pre[last.id])
          /\ store = last.pre

C20_Witness ==
    /\ last.op = "Save"
    /\ last.id = "b"
    /\ last.err = ErrNotFound
    /\ IsStored(last.pre, "a")
    /\ store = last.pre
    /\ store["b"] = NoFlow

---------------------------------------------------------------------------
(* SpecStores: the in-memory store and the PostgresStore given the same    *)
(* calls, one after the other.  store is the in-memory store, procs.pg the *)
(* data_flows table.  last keeps the call and what each store answered.    *)

InitStores ==
    /\ clock = 1
    /\ store = [id \in StoreIds |-> NoFlow]
    /\ procs = [pg |-> [id \in StoreIds |-> NoFlow]]
    /\ last = NoOp
    /\ df = NoFlow
    /\ call = NoCall
    /\ base = 0
    /\ effective = 0

StoresUnchanged == UNCHANGED <<clock, df, call, base, effective>>

BothFindById(id) ==
    /\ last' = [op |-> "FindById", id |-> id, flow |-> NoFlow,
                mem |-> FindById(store, id),
                pg |-> PgFindById(procs.pg, id)]
    /\ UNCHANGED <<store, procs>>
    /\ StoresUnchanged

BothCreate(flow) ==
    /\ LET m == Create(store, flow)
           r == PgCreate(procs.pg, flow, clock)
       IN  /\ store' = m.store
           /\ procs' = [pg |-> r.store]
           /\ last' = [op |-> "Create", id |-> flow.ID, flow |-> flow,
                       mem |-> [flow |-> NoFlow, err |-> m.err],
                       pg |-> [flow |-> NoFlow, err |-> r.err]]
    /\ StoresUnchanged

BothSave(flow) ==
    /\ LET m == Save(store, flow)
           r == PgSave(procs.pg, flow, clock)
       IN  /\ store' = m.store
           /\ procs' = [pg |-> r.store]
           /\ last' = [op |-> "Save", id |-> flow.ID, flow |-> flow,
                       mem |-> [flow |-> NoFlow, err |-> m.err],
                       pg |-> [flow |-> NoFlow, err |-> r.err]]
    /\ StoresUnchanged

BothDelete(id) ==
    /\ LET m == Delete(store, id)
           r == PgDelete(procs.pg, id)
       IN  /\ store' = m.store
           /\ procs' = [pg |-> r.store]
           /\ last' = [op |-> "Delete", id |-> id, flow |-> NoFlow,
                       mem |-> [flow |-> NoFlow, err |-> m.err],
                       pg |-> [flow |-> NoFlow, err |-> r.err]]
    /\ StoresUnchanged

NextStores ==
    \/ \E id \in StoreArgIds : BothFindById(id)
    \/ \E flow \in StoreFlows : BothCreate(flow)
    \/ \E flow \in StoreFlows : BothSave(flow)
    \/ \E id \in StoreArgIds : BothDelete(id)

SpecStores == InitStores /\ [][NextStores]_vars

WellFormedCall ==
    /\ last # NoOp
    /\ last.id # ""
    /\ last.op \in {"Create", "Save"} => last.flow # NoFlow

\* C21: given the same sequence of FindById/Create/Save/Delete calls, the
\* in-memory store and the relational store answer each call (made with a
\* flow that is not nil and an id that is not empty) with the same error
\* kind and hold flows for the same set of ids; in particular Save of an id
\* that is not stored returns NotFound and stores nothing in both.
C21_Interchangeable ==
    WellFormedCall =>
        /\ last.mem.err = last.pg.err
        /\ {id \in StoreIds : store[id] # NoFlow}
              = {id \in StoreIds : procs.pg[id] # NoFlow}
        /\ (last.op = "Save" /\ last.flow # NoFlow /\ last.id # ""
            /\ last.mem.err = ErrNotFound) =>
              /\ last.pg.err = ErrNotFound
              /\ procs.pg[last.id] = NoFlow

SameAttributes(f, g) ==
    /\ f.ID = g.ID
    /\ f.Consumer = g.Consumer
    /\ f.State = g.State
    /\ f.StateCount = g.StateCount
    /\ f.StateTimestamp = g.StateTimestamp
    /\ f.ErrorDetail = g.ErrorDetail
    /\ f.SourceDataAddress = g.SourceDataAddress

\* C22: in each store, right after a Create(f) or Save(f) that succeeded,
\* FindById(f.id) succeeds and returns a flow equal to f in id, consumer,
\* state, stateCount, stateTimestamp, errorDetail and data address.
C22_RoundTrip ==
    last.op \in {"Create", "Save"} =>
        /\ last.mem.err = Nil =>
              /\ FindById(store, last.id).err = Nil
              /\ SameAttributes(FindById(store, last.id).flow, last.flow)
        /\ last.pg.err = Nil =>
              /\ PgFindById(procs.pg, last.id).err = Nil
              /\ SameAttributes(PgFindById(procs.pg, last.id).flow, last.flow)

---------------------------------------------------------------------------
(* SpecAlias: one caller and the in-memory store.  A DataFlow struct holds *)
(* its scalar fields by value and, in each data address, a reference to a  *)
(* property map; procs.heap gives the contents of every map.  The store's  *)
(* copy on read and on write is the struct assignment flowCopy := *flow,   *)
(* which copies the scalar fields and the reference.  procs.held is the    *)
(* flow the caller holds (the one it passed in, or the one FindById        *)
(* returned); procs.expect is what the store held, maps included, after    *)
(* the last Create or Save.                                                *)

MaxRefs == 2

Refs == 1..MaxRefs
MapContents == {"v0", "v1"}
AliasId == "a"

View(s, heap) ==
    [id \in DOMAIN s |->
        IF s[id] = NoFlow THEN NoFlow
        ELSE [s[id] EXCEPT !.SourceDataAddress = heap[@]]]

InitAlias ==
    /\ clock = 1
    /\ store = [id \in FlowIds |-> NoFlow]
    /\ procs = [heap |-> [r \in Refs |-> "v0"], allocated |-> 0,
                held |-> NoFlow, expect |-> [id \in FlowIds |-> NoFlow]]
    /\ last = NoOp
    /\ df = NoFlow
    /\ call = NoCall
    /\ base = 0
    /\ effective = 0

AliasUnchanged == UNCHANGED <<clock, df, call, base, effective>>

(* The caller makes a flow with a property map of its own. *)
AliasNew(state) ==
    /\ procs.allocated < MaxRefs
    /\ LET r == procs.allocated + 1
       IN  procs' = [procs EXCEPT
                        !.allocated = r,
                        !.heap[r] = "v0",
                        !.held = [ID |-> AliasId, Consumer |-> FALSE,
                                  State |-> state, StateCount |-> 1,
                                  StateTimestamp |-> 1, ErrorDetail |-> "",
                                  SourceDataAddress |-> r]]
    /\ last' = [op |-> "New"]
    /\ UNCHANGED store
    /\ AliasUnchanged

AliasCreate ==
    /\ procs.held # NoFlow
    /\ LET r == Create(store, procs.held)
       IN  /\ store' = r.store
           /\ procs' = [procs EXCEPT
                           !.expect = IF r.err = Nil
                                      THEN View(r.store, procs.heap) ELSE @]
           /\ last' = [op |-> "Create", err |-> r.err]
    /\ AliasUnchanged

AliasSave ==
    /\ procs.held # NoFlow
    /\ LET r == Save(store, procs.held)
       IN  /\ store' = r.store
           /\ procs' = [procs EXCEPT
                           !.expect = IF r.err = Nil
                                      THEN View(r.store, procs.heap) ELSE @]
           /\ last' = [op |-> "Save", err |-> r.err]
    /\ AliasUnchanged

AliasFindById ==
    /\ LET r == FindById(store, AliasId)
       IN  /\ procs' = [procs EXCEPT
                           !.held = IF r.err = Nil THEN r.flow ELSE @]
           /\ last' = [op |-> "FindById", err |-> r.err]
    /\ UNCHANGED store
    /\ AliasUnchanged

(* The caller assigns a scalar field of the flow it holds. *)
AliasMutateField(state) ==
    /\ procs.held # NoFlow
    /\ procs.held.State # state
    /\ procs' = [procs EXCEPT !.held.State = state]
    /\ last' = [op |-> "MutateField"]
    /\ UNCHANGED store
    /\ AliasUnchanged

(* The caller writes an entry of the property map of the flow it holds. *)
AliasMutateMap(v) ==
    /\ procs.held # NoFlow
    /\ procs.heap[procs.held.SourceDataAddress] # v
    /\ procs' = [procs EXCEPT !.heap[procs.held.SourceDataAddress] = v]
    /\ last' = [op |-> "MutateMap"]
    /\ UNCHANGED store
    /\ AliasUnchanged

NextAlias ==
    \/ \E state \in {Started, Suspended} : AliasNew(state)
    \/ AliasCreate
    \/ AliasSave
    \/ AliasFindById
    \/ \E state \in {Started, Suspended} : AliasMutateField(state)
    \/ \E v \in MapContents : AliasMutateMap(v)

SpecAlias == InitAlias /\ [][NextAlias]_vars

\* C23: what FindById returns, the contents of the data-address property
\* map included, is what the last Create or Save stored: no mutation the
\* caller makes to a flow it got from FindById or passed to Create or Save
\* changes it.
C23_Isolation ==
    View(store, procs.heap) = procs.expect

---------------------------------------------------------------------------
(* SpecRace: MaxRacers callers, each on its own goroutine, call Create,    *)
(* Prepare or Start with the same id on a store that does not hold it.     *)
(* Create is one step (it holds the store's lock).  Prepare and Start take *)
(* two: FindById, then the rest of the unit of work on the flow that was   *)
(* read, whose Create or Save acts on the store as it is by then.          *)

MaxRacers == 2

Racers == 1..MaxRacers
RaceOps == {"Create", "Prepare", "Start"}

RaceFlow(state) == Build(ConcId, FALSE, state, TRUE, 1).flow

RaceRun(me, s, now) ==
    IF me.op = "Prepare"
    THEN Prepare(Live, s, [ProcessID |-> ConcId, Complete |-> TRUE],
                 [State |-> me.answer, err |-> Nil], now)
    ELSE Start(Live, s, [ProcessID |-> ConcId, Complete |-> TRUE,
                         DataAddress |-> NoAddress],
               [State |-> me.answer, err |-> Nil], now)

InitRace ==
    /\ clock = 1
    /\ store = [id \in FlowIds |-> NoFlow]
    /\ procs \in [Racers ->
                    [op : {"Create"}, answer : {Started}, pc : {"start"},
                     flow : {NoFlow}, created : {"not called"}, err : {Nil}]
                    \cup
                    [op : {"Prepare"}, answer : {Preparing, Prepared},
                     pc : {"start"}, flow : {NoFlow},
                     created : {"not called"}, err : {Nil}]
                    \cup
                    [op : {"Start"}, answer : {Starting, Started},
                     pc : {"start"}, flow : {NoFlow},
                     created : {"not called"}, err : {Nil}]]
    /\ last = NoOp
    /\ df = NoFlow
    /\ call = NoCall
    /\ base = 0
    /\ effective = 0

RaceUnchanged == UNCHANGED <<clock, df, call, base, effective, last>>

(* Store.Create called directly. *)
RaceCreate(w) ==
    /\ procs[w].pc = "start"
    /\ procs[w].op = "Create"
    /\ LET r == Create(store, RaceFlow(procs[w].answer))
       IN  /\ store' = r.store
           /\ procs' = [procs EXCEPT
                           ![w].pc = "done",
                           ![w].err = r.err,
                           ![w].created = IF r.err = Nil THEN "ok"
                                          ELSE "failed"]
    /\ RaceUnchanged

(* FindById at the start of Prepare or Start. *)
RaceFind(w) ==
    /\ procs[w].pc = "start"
    /\ procs[w].op # "Create"
    /\ procs' = [procs EXCEPT ![w].pc = "found",
                              ![w].flow = FindById(store, ConcId).flow]
    /\ UNCHANGED store
    /\ RaceUnchanged

(* The rest of Prepare or Start. *)
RaceFinish(w) ==
    /\ procs[w].pc = "found"
    /\ LET me == procs[w]
           r == RaceRun(me, [store EXCEPT ![ConcId] = me.flow], clock)
           creates == Has(r.calls, EvCreate)
           saves == Has(r.calls, EvSave)
           written == IF creates THEN Create(store, r.store[ConcId])
                      ELSE IF saves THEN Save(store, r.store[ConcId])
                      ELSE [store |-> store, err |-> r.err]
       IN  /\ store' = written.store
           /\ procs' = [procs EXCEPT
                           ![w].pc = "done",
                           ![w].err = written.err,
                           ![w].created = IF ~creates THEN "not called"
                                          ELSE IF written.err = Nil THEN "ok"
                                          ELSE "failed"]
    /\ RaceUnchanged

NextRace ==
    \/ \E w \in Racers : RaceCreate(w)
    \/ \E w \in Racers : RaceFind(w)
    \/ \E w \in Racers : RaceFinish(w)

SpecRace == InitRace /\ [][NextRace]_vars

RaceDone == \A w \in Racers : procs[w].pc = "done"

\* C24: when concurrent Create, Prepare and Start calls with the same id on
\* a store that does not hold the id have all returned, exactly one Create
\* succeeded, every other Create that was called failed with Conflict, and
\* a flow with that id is stored; at no time has more than one Create
\* succeeded.
C24_OneCreateWins ==
    /\ Cardinality({w \in Racers : procs[w].created = "ok"}) <= 1
    /\ \A w \in Racers :
          procs[w].created = "failed" => procs[w].err = ErrConflict
    /\ RaceDone =>
          /\ Cardinality({w \in Racers : procs[w].created = "ok"}) = 1
          /\ store[ConcId] # NoFlow

C24_Witness ==
    /\ RaceDone
    /\ procs[1].op = "Prepare"
    /\ procs[2].op = "Prepare"
    /\ procs[1].created = "failed"
    /\ procs[1].err = ErrConflict
    /\ procs[2].created = "ok"
    /\ store[ConcId].State = procs[2].answer

---------------------------------------------------------------------------
(* C25: the empty process id *)

EmptyIdOps == {"Prepare", "Start", "Suspend", "Terminate", "Complete"}

\* C25: Prepare, Start, Suspend, Terminate and Complete called with an empty
\* process id fail with an error of kind InvalidInput, and they fail before
\* any store access, transaction or processor invocation (the call made
\* nothing: its sequence of calls is empty).
C25_EmptyIdInvalidInput ==
    (last.op \in EmptyIdOps /\ last.id = "") =>
        /\ last.err = ErrInvalidInput
        /\ last.calls = <<>>

---------------------------------------------------------------------------
(* DataPlaneApi: the signaling facade over the engine.  A handler is       *)
(* evaluated on the decoded message and returns the store afterwards, the  *)
(* responses it wrote, in order, and the engine calls it made.  The        *)
(* request method is the expected one and the body decodes.                *)
(*                                                                         *)
(* An error value is its chain of wrapped errors, outermost first: a       *)
(* fmt.Errorf with %w puts a context string in front of the error it       *)
(* wraps.  errors.Is looks for the target along the whole chain.           *)

StatusOK == 200
StatusAccepted == 202
StatusBadRequest == 400
StatusNotFound == 404
StatusConflict == 409
StatusInternalServerError == 500

MaxWrap == 1

NoError == <<>>
Context == "context"
Wrap(n, err) == [i \in 1..n |-> Context] \o <<err>>
Is(err, target) == \E i \in 1..Len(err) : err[i] = target

NoLocation == <<>>
Location(id) == <<"/dataflows/", id>>

writeResponse(code, location) == [code |-> code, Location |-> location]

handleErrorHeadOnly(err) ==
    IF err[1] \in {ErrValidation, ErrInvalidTransition, ErrInvalidInput}
    THEN writeResponse(StatusBadRequest, NoLocation)
    ELSE IF err[1] = ErrNotFound
    THEN writeResponse(StatusNotFound, NoLocation)
    ELSE IF err[1] = ErrConflict
    THEN writeResponse(StatusConflict, NoLocation)
    ELSE writeResponse(StatusInternalServerError, NoLocation)

handleError(err) ==
    IF \/ Is(err, ErrValidation)
       \/ Is(err, ErrInvalidTransition)
       \/ Is(err, ErrInvalidInput)
    THEN writeResponse(StatusBadRequest, NoLocation)
    ELSE IF Is(err, ErrNotFound)
    THEN writeResponse(StatusNotFound, NoLocation)
    ELSE IF Is(err, ErrConflict)
    THEN writeResponse(StatusConflict, NoLocation)
    ELSE writeResponse(StatusInternalServerError, NoLocation)

(* Validate on a prepare or start message: message.Valid says whether all *)
(* fields tagged required are present.  A failure is an error of kind      *)
(* Validation.                                                             *)
WrapValidationError == Wrap(1, ErrValidation)

Validate(message) ==
    IF message.Valid THEN NoError ELSE WrapValidationError

(* DataFlowStartedNotificationMessage and DataFlowTransitionMessage have   *)
(* no required field: their validation always succeeds.                    *)
ValidateStartedNotification(message) == NoError

ApiOut(s, responses, engine, handled) ==
    [store |-> s, responses |-> responses, engine |-> engine,
     handled |-> handled]

(* The answer to an engine call that returns a response: the error mapped, *)
(* or 200 when the response carries the target state and 202 otherwise.    *)
answer(r, wraps, target, location) ==
    IF r.err # Nil
    THEN handleError(Wrap(wraps, r.err))
    ELSE IF r.response = target
    THEN writeResponse(StatusOK, NoLocation)
    ELSE writeResponse(StatusAccepted, location)

handledBy(r, wraps) == IF r.err # Nil THEN Wrap(wraps, r.err) ELSE NoError

(* DataPlaneApi.Prepare: a validation failure is answered and the handler  *)
(* goes on to the engine; no Location header is set.                       *)
ApiPrepare(s, message, onPrepare, wraps, now) ==
    LET invalid == Validate(message)
        first == IF invalid # NoError THEN <<handleError(invalid)>> ELSE <<>>
        r == Prepare(Live, s, message, onPrepare, now)
    IN  ApiOut(r.store, first \o <<answer(r, wraps, Prepared, NoLocation)>>,
               <<r>>, handledBy(r, wraps))

ApiStart(s, message, onStart, wraps, now) ==
    LET invalid == Validate(message)
        r == Start(Live, s, message, onStart, now)
    IN  IF invalid # NoError
        THEN ApiOut(s, <<handleError(invalid)>>, <<>>, NoError)
        ELSE ApiOut(r.store,
                    <<answer(r, wraps, Started, Location(message.ProcessID))>>,
                    <<r>>, handledBy(r, wraps))

ApiStartById(s, id, message, onStart, wraps, now) ==
    LET invalid == ValidateStartedNotification(message)
        r == StartById(Live, s, id, message, onStart, now)
    IN  IF invalid # NoError
        THEN ApiOut(s, <<handleError(invalid)>>, <<>>, NoError)
        ELSE ApiOut(r.store, <<answer(r, wraps, Started, Location(id))>>,
                    <<r>>, handledBy(r, wraps))

(* Terminate, Suspend and Complete answer the mapped error or 200. *)
answerErr(r, wraps) ==
    IF r.err # Nil
    THEN handleError(Wrap(wraps, r.err))
    ELSE writeResponse(StatusOK, NoLocation)

ApiTerminate(s, id, reason, onTerminate, wraps, now) ==
    LET r == Terminate(Live, s, id, reason, onTerminate, now)
    IN  ApiOut(r.store, <<answerErr(r, wraps)>>, <<r>>, handledBy(r, wraps))

ApiSuspend(s, id, reason, onSuspend, wraps, now) ==
    LET r == Suspend(Live, s, id, reason, onSuspend, now)
    IN  ApiOut(r.store, <<answerErr(r, wraps)>>, <<r>>, handledBy(r, wraps))

ApiComplete(s, id, onComplete, wraps, now) ==
    LET r == Complete(Live, s, id, onComplete, now)
    IN  ApiOut(r.store, <<answerErr(r, wraps)>>, <<r>>, handledBy(r, wraps))

---------------------------------------------------------------------------
(* SpecApi: requests served one at a time by the facade over the engine    *)
(* and the in-memory store, with the store seeded as in Spec.  The depth   *)
(* at which the engine wrapped the error it returns is left open.          *)

Wraps == 0..MaxWrap

(* A message that passes validation carries a process id. *)
Messages ==
    {m \in [ProcessID : OpIds, Complete : BOOLEAN, Valid : BOOLEAN] :
        m.Valid => m.ProcessID # ""}

ApiRecord(op, id, valid, out) ==
    [op |-> op, id |-> id, valid |-> valid, pre |-> Pre(id), before |-> store,
     responses |-> out.responses, engine |-> out.engine,
     handled |-> out.handled]

InitApi == Init

HandlePrepare(message, onPrepare, wraps) ==
    /\ LET out == ApiPrepare(store, message, onPrepare, wraps, clock)
       IN  /\ store' = out.store
           /\ last' = ApiRecord("Prepare", message.ProcessID, message.Valid, out)
    /\ EngineUnchanged

HandleStart(message, addr, onStart, wraps) ==
    /\ LET out == ApiStart(store,
                        [ProcessID |-> message.ProcessID,
                         Complete |-> message.Complete,
                         Valid |-> message.Valid,
                         DataAddress |-> addr],
                        onStart, wraps, clock)
       IN  /\ store' = out.store
           /\ last' = ApiRecord("Start", message.ProcessID, message.Valid, out)
    /\ EngineUnchanged

HandleStartById(id, addr, onStart, wraps) ==
    /\ LET out == ApiStartById(store, id, [DataAddress |-> addr],
                            onStart, wraps, clock)
       IN  /\ store' = out.store
           /\ last' = ApiRecord("StartById", id, TRUE, out)
    /\ EngineUnchanged

HandleTerminate(id, reason, onTerminate, wraps) ==
    /\ LET out == ApiTerminate(store, id, reason, onTerminate, wraps,
                            clock)
       IN  /\ store' = out.store
           /\ last' = ApiRecord("Terminate", id, TRUE, out)
    /\ EngineUnchanged

HandleSuspend(id, reason, onSuspend, wraps) ==
    /\ LET out == ApiSuspend(store, id, reason, onSuspend, wraps, clock)
       IN  /\ store' = out.store
           /\ last' = ApiRecord("Suspend", id, TRUE, out)
    /\ EngineUnchanged

HandleComplete(id, onComplete, wraps) ==
    /\ LET out == ApiComplete(store, id, onComplete, wraps, clock)
       IN  /\ store' = out.store
           /\ last' = ApiRecord("Complete", id, TRUE, out)
    /\ EngineUnchanged

NextApi ==
    \/ \E id \in FlowIds, state \in States, consumer \in BOOLEAN :
          StoreCreate(id, state, consumer)
    \/ \E m \in Messages, p \in ProcOutcomes, n \in Wraps :
          HandlePrepare(m, p, n)
    \/ \E m \in Messages, p \in ProcOutcomes, n \in Wraps :
          HandleStart(m, "da1", p, n)
    \/ \E id \in OpIds, p \in ProcOutcomes, n \in Wraps :
          HandleStartById(id, "da1", p, n)
    \/ \E id \in OpIds, h \in HandlerOutcomes, n \in Wraps :
          HandleTerminate(id, "r1", h, n)
    \/ \E id \in OpIds, h \in HandlerOutcomes, n \in Wraps :
          HandleSuspend(id, "r1", h, n)
    \/ \E id \in OpIds, h \in HandlerOutcomes, n \in Wraps :
          HandleComplete(id, h, n)

SpecApi == InitApi /\ [][NextApi]_vars

ApiOps ==
    {"Prepare", "Start", "StartById", "Terminate", "Suspend", "Complete"}

---------------------------------------------------------------------------
(* C26-C28: the facade *)

(* The status code each kind of error is mapped to. *)
StatusOfKind(kind) ==
    CASE kind = ErrNotFound -> StatusNotFound
      [] kind = ErrConflict -> StatusConflict
      [] kind \in {ErrValidation, ErrInvalidInput, ErrInvalidTransition} ->
             StatusBadRequest
      [] OTHER -> StatusInternalServerError

\* C26: the response the facade writes for an error returned by the engine
\* has the status code of the error's kind: 404 for NotFound, 409 for
\* Conflict, 400 for Validation, InvalidInput and InvalidTransition, 500 for
\* any other error, whether the engine returned the error bare or wrapped
\* with context strings.
C26_ErrorMapping ==
    (/\ last.op \in ApiOps
     /\ Len(last.engine) = 1
     /\ last.engine[1].err # Nil) =>
        /\ last.handled = Wrap(Len(last.handled) - 1, last.engine[1].err)
        /\ last.responses[Len(last.responses)] =
              [code |-> StatusOfKind(last.engine[1].err),
               Location |-> NoLocation]

\* A Terminate of an unknown flow: the engine returns NotFound wrapped with
\* a context string and the facade answers 404.
C26_Witness ==
    /\ last.op = "Terminate"
    /\ last.engine[1].err = ErrNotFound
    /\ Len(last.handled) > 1
    /\ last.responses = <<[code |-> StatusNotFound, Location |-> NoLocation]>>

AnswerOps == {"Prepare", "Start", "StartById"}

TargetOf(op) == IF op = "Prepare" THEN Prepared ELSE Started
IntermediateOf(op) == IF op = "Prepare" THEN Preparing ELSE Starting

\* C27: a successful Prepare, Start or StartById request is answered 200
\* exactly when the persisted flow is in the target state (Prepared for
\* Prepare, Started for Start and StartById) and 202 exactly when the
\* persisted flow is in the intermediate state (Preparing, Starting), and
\* every 202 answer carries the Location of the flow.
C27_AnswerFollowsFlow ==
    (/\ last.op \in AnswerOps
     /\ last.valid
     /\ Len(last.engine) = 1
     /\ last.engine[1].err = Nil) =>
        LET resp == last.responses[1]
            flow == store[last.id]
        IN  /\ Len(last.responses) = 1
            /\ resp.code = StatusOK <=> flow.State = TargetOf(last.op)
            /\ resp.code = StatusAccepted <=>
                  flow.State = IntermediateOf(last.op)
            /\ resp.code = StatusAccepted =>
                  resp.Location = Location(last.id)

\* C28: a Prepare, Start or StartById request whose decoded message fails
\* validation is answered with 400 and never reaches the engine: exactly one
\* response is written, no engine method is called (so no processor is
\* invoked) and the store is as it was before the request.
C28_InvalidNeverReachesEngine ==
    (last.op \in AnswerOps /\ ~last.valid) =>
        /\ last.responses =
              <<[code |-> StatusBadRequest, Location |-> NoLocation]>>
        /\ last.engine = <<>>
        /\ store = last.before

---------------------------------------------------------------------------
(* C29-C30: the consumer flag and the consumer scenario *)

\* C29: the consumer flag of a persisted flow never changes: in every step
\* of the engine a flow that is stored before and after has the same
\* consumer flag, a flow that a Prepare creates has consumer = true and a
\* flow that a Start creates has consumer = false.
C29_ConsumerImmutable ==
    [][\A id \in FlowIds :
          /\ (store[id] # NoFlow /\ store'[id] # NoFlow) =>
                store'[id].Consumer = store[id].Consumer
          /\ (store[id] = NoFlow /\ store'[id] # NoFlow) =>
                /\ last'.op = "Prepare" => store'[id].Consumer
                /\ last'.op = "Start" => ~store'[id].Consumer]_vars

\* A consumer flow that StartById has just moved from Prepared to Started
\* and saved: it is still a consumer flow.
C29_Witness ==
    /\ last.op = "StartById"
    /\ last.err = Nil
    /\ Has(last.calls, EvSave)
    /\ last.pre.State = Prepared
    /\ last.pre.Consumer
    /\ store[last.id].State = Started
    /\ store[last.id].Consumer

\* C30: after Prepare has created a consumer flow in Prepared with the
\* default processor, a StartById on that id with a notification that
\* carries a data address, served by the default processor, leaves the
\* persisted flow in Started and holding that data address.
C30_StartByIdStoresAddress ==
    (/\ last.op = "StartById"
     /\ last.ctx = Live
     /\ last.proc = DefaultStart
     /\ last.addr # NoAddress
     /\ last.pre # NoFlow
     /\ last.pre.Consumer
     /\ last.pre.State = Prepared) =>
        /\ last.err = Nil
        /\ store[last.id].State = Started
        /\ store[last.id].SourceDataAddress = last.addr

---------------------------------------------------------------------------
(* NewDataPlaneSDK: the options are applied, the store and the transaction *)
(* context are required, and every processor or handler left unset gets    *)
(* its default.  There is no option for onComplete.                        *)

Unset == "unset"
UnsetProcessor == [State |-> NoResponse, err |-> Unset]

ErrStoreRequired == "store is required"
ErrTrxRequired == "transaction context is required"

NoSdk == [Store |-> Unset]

SdkOptions ==
    [Store : {Unset, "InMemoryStore"},
     TrxContext : {Unset, InMemoryTrxContext},
     onPrepare : {UnsetProcessor, [State |-> Preparing, err |-> Nil]},
     onStart : {UnsetProcessor, [State |-> Starting, err |-> Nil]},
     onTerminate : {Unset, ErrProcessor},
     onSuspend : {Unset, ErrProcessor}]

NewDataPlaneSDKKeepsUnset(options) ==
    IF options.Store = Unset
    THEN [options |-> options, sdk |-> NoSdk, err |-> ErrStoreRequired]
    ELSE IF options.TrxContext = Unset
    THEN [options |-> options, sdk |-> NoSdk, err |-> ErrTrxRequired]
    ELSE [options |-> options,
          sdk |-> [Store |-> options.Store,
                   TrxContext |-> options.TrxContext,
                   onPrepare |-> options.onPrepare,
                   onStart |-> options.onStart,
                   onTerminate |-> options.onTerminate,
                   onSuspend |-> options.onSuspend,
                   onComplete |-> Unset],
          err |-> Nil]

NewDataPlaneSDK(options) ==
    IF options.Store = Unset
    THEN [options |-> options, sdk |-> NoSdk, err |-> ErrStoreRequired]
    ELSE IF options.TrxContext = Unset
    THEN [options |-> options, sdk |-> NoSdk, err |-> ErrTrxRequired]
    ELSE [options |-> options,
          sdk |-> [Store |-> options.Store,
                   TrxContext |-> options.TrxContext,
                   onPrepare |-> IF options.onPrepare = UnsetProcessor
                                 THEN DefaultPrepare ELSE options.onPrepare,
                   onStart |-> IF options.onStart = UnsetProcessor
                               THEN DefaultStart ELSE options.onStart,
                   onTerminate |-> IF options.onTerminate = Unset
                                   THEN Nil ELSE options.onTerminate,
                   onSuspend |-> IF options.onSuspend = Unset
                                 THEN Nil ELSE options.onSuspend,
                   onComplete |-> Nil],
          err |-> Nil]

(* SpecSdk: an engine constructed from any set of options; when the        *)
(* construction succeeded, its operations are called with the processors   *)
(* and handlers the constructed engine holds.                              *)
InitSdk ==
    /\ clock = 1
    /\ store = [id \in FlowIds |-> NoFlow]
    /\ last = NoOp
    /\ df = NoFlow
    /\ call = NoCall
    /\ base = 0
    /\ effective = 0
    /\ procs \in {NewDataPlaneSDK(o) : o \in SdkOptions}

NextSdk ==
    /\ procs.err = Nil
    /\ \/ \E id \in OpIds, complete \in BOOLEAN :
             DoPrepare(Live, id, complete, procs.sdk.onPrepare)
       \/ \E id \in OpIds, complete \in BOOLEAN :
             DoStart(Live, id, complete, "da1", procs.sdk.onStart)
       \/ \E id \in OpIds : DoStartById(Live, id, "da1", procs.sdk.onStart)
       \/ \E id \in OpIds, reason \in Reasons :
             DoTerminate(Live, id, reason, procs.sdk.onTerminate)
       \/ \E id \in OpIds, reason \in Reasons :
             DoSuspend(Live, id, reason, procs.sdk.onSuspend)
       \/ \E id \in OpIds : DoComplete(Live, id, procs.sdk.onComplete)

SpecSdk == InitSdk /\ [][NextSdk]_vars

\* C31: constructing the engine fails when the store or the transaction
\* context is missing and succeeds otherwise; every processor or handler
\* left unset is then the default (prepare answers Prepared, start answers
\* Started, the handlers return no error), so an engine built from the two
\* required options alone serves every operation: no call fails for want of
\* a processor, and a Prepare of a new flow from a complete message stores
\* it in Prepared.
C31_Construction ==
    LET o == procs.options
        sdk == procs.sdk
    IN  /\ procs.err # Nil <=> (o.Store = Unset \/ o.TrxContext = Unset)
        /\ procs.err # Nil <=> sdk = NoSdk
        /\ procs.err = Nil =>
              /\ o.onPrepare = UnsetProcessor => sdk.onPrepare = DefaultPrepare
              /\ o.onStart = UnsetProcessor => sdk.onStart = DefaultStart
              /\ o.onTerminate = Unset => sdk.onTerminate = Nil
              /\ o.onSuspend = Unset => sdk.onSuspend = Nil
              /\ sdk.onComplete = Nil
              /\ last.op \in EngineOps =>
                    /\ IF last.op \in AnswerOps
                       THEN last.proc # UnsetProcessor
                       ELSE last.proc # Unset
                    /\ last.err # Unset
              /\ (/\ last.op = "Prepare"
                  /\ o.onPrepare = UnsetProcessor
                  /\ last.id # ""
                  /\ last.complete
                  /\ last.pre = NoFlow) =>
                    /\ last.err = Nil
                    /\ last.response = Prepared
                    /\ store[last.id].State = Prepared

\* An engine built from the store and the transaction context alone has
\* just completed a flow through the default onComplete.
C31_Witness ==
    /\ procs.err = Nil
    /\ procs.options.onPrepare = UnsetProcessor
    /\ procs.options.onStart = UnsetProcessor
    /\ procs.options.onTerminate = Unset
    /\ procs.options.onSuspend = Unset
    /\ last.op = "Complete"
    /\ last.err = Nil
    /\ Has(last.calls, EvOnComplete)
    /\ store[last.id].State = Completed

---------------------------------------------------------------------------
(* C32-C38: the engine's branches, their order and their writes *)

(* A Start, or a StartById of a consumer flow, that found a stored flow:  *)
(* the calls that reach startExistingFlow.                                 *)
StartsExisting(l) ==
    /\ l.op \in {"Start", "StartById"}
    /\ l.ctx = Live
    /\ l.id # ""
    /\ l.pre # NoFlow
    /\ l.op = "StartById" => l.pre.Consumer

\* C32: a Start or StartById that reaches an existing flow dispatches on its
\* state.  In Starting or Started onStart is invoked with Duplicate=true,
\* for a consumer flow in Prepared with Duplicate=false; in both branches a
\* call that succeeds has saved the flow once, in the state of the
\* response, and the call succeeds whenever the processor answers Starting
\* or Started and the flow may move there.  In every other case the call
\* fails with InvalidTransition, onStart is not invoked, nothing is written
\* and the stored flow is as it was.
C32_StartDispatch ==
    StartsExisting(last) =>
        LET pre == last.pre
            duplicate == pre.State \in {Starting, Started}
            consumerSide == pre.Consumer /\ pre.State = Prepared
        IN  IF duplicate \/ consumerSide
            THEN /\ Has(last.calls, EvOnStart(duplicate, last.addr))
                 /\ ~Has(last.calls, EvOnStart(~duplicate, last.addr))
                 /\ last.err = Nil =>
                       /\ Count(last.calls, EvSave) = 1
                       /\ ~Has(last.calls, EvCreate)
                       /\ store[last.id].State = last.proc.State
                       /\ last.response = last.proc.State
                 /\ (/\ last.proc.err = Nil
                     /\ last.proc.State \in {Starting, Started}
                     /\ \/ last.proc.State = pre.State
                        \/ <<pre.State, last.proc.State>> \in Permitted) =>
                       last.err = Nil
            ELSE /\ last.err = ErrInvalidTransition
                 /\ ~OnStartCalled(last.calls)
                 /\ ~Writes(last.calls)
                 /\ store[last.id] = pre

\* A Start after a Suspend: it fails with InvalidTransition and the flow
\* stays Suspended.
C32_Witness ==
    /\ last.op = "Start"
    /\ last.ctx = Live
    /\ last.pre # NoFlow
    /\ last.pre.State = Suspended
    /\ last.proc = DefaultStart
    /\ last.err = ErrInvalidTransition
    /\ store[last.id].State = Suspended

\* C33: when the processor is invoked and answers without error a state the
\* operation does not accept (other than Preparing or Prepared for Prepare,
\* other than Starting or Started for Start and StartById), the operation
\* fails, neither Create nor Save is called and the stored flow is as it
\* was, whether the flow is new or already stored.
C33_InvalidResponseState ==
    (/\ last.op \in AnswerOps
     /\ ProcessorCalled(last.calls)
     /\ last.proc.err = Nil
     /\ last.proc.State \notin
           {IntermediateOf(last.op), TargetOf(last.op)}) =>
        /\ last.err # Nil
        /\ ~Writes(last.calls)
        /\ store[last.id] = last.pre

Before(calls, a, b) ==
    \E i \in 1..Len(calls), j \in 1..Len(calls) :
        i < j /\ calls[i] = a /\ calls[j] = b

HandlerOf(op) ==
    CASE op = "Terminate" -> EvOnTerminate
      [] op = "Suspend" -> EvOnSuspend
      [] op = "Complete" -> EvOnComplete

\* C34: inside one call, Complete makes the state transition before it
\* invokes onComplete, while Suspend and Terminate invoke their handler
\* before the transition; in all three the Save, when there is one, is the
\* last step and comes after both the handler and the transition.
C34_Ordering ==
    (last.op \in {"Complete", "Suspend", "Terminate"} /\ last.ctx = Live) =>
        LET calls == last.calls
            handler == HandlerOf(last.op)
        IN  /\ last.op = "Complete" =>
                  /\ Has(calls, handler) => Before(calls, EvTransition, handler)
                  /\ ~Before(calls, handler, EvTransition)
            /\ last.op \in {"Suspend", "Terminate"} =>
                  /\ Has(calls, EvTransition) =>
                        Before(calls, handler, EvTransition)
                  /\ ~Before(calls, EvTransition, handler)
            /\ Has(calls, EvSave) =>
                  /\ calls[Len(calls)] = EvSave
                  /\ Count(calls, EvSave) = 1
                  /\ Before(calls, handler, EvSave)
                  /\ Before(calls, EvTransition, EvSave)

\* A Terminate that invoked onTerminate, then made the transition, then
\* saved.
C34_Witness ==
    /\ last.op = "Terminate"
    /\ last.ctx = Live
    /\ last.err = Nil
    /\ last.calls = <<EvFindById, EvOnTerminate, EvTransition, EvSave>>
    /\ store[last.id].State = Terminated

---------------------------------------------------------------------------
(* SpecLost: the engine calls of SpecConc, with a Delete of the flow by    *)
(* another caller of the store at any moment.  A call that read the flow   *)
(* before the Delete and saves after it gets NotFound from Store.Save.     *)

ConcDelete ==
    /\ store[ConcId] # NoFlow
    /\ store' = Delete(store, ConcId).store
    /\ UNCHANGED <<clock, df, call, base, effective, last, procs>>

NextLost ==
    \/ \E w \in Workers : ConcFind(w)
    \/ \E w \in Workers : ConcFinish(w)
    \/ ConcDelete

SpecLost == InitConc /\ [][NextLost]_vars

\* C35: when the store write of an engine operation fails, the operation
\* returns an error, and the error has the kind of the store's error; in
\* particular a Complete whose Save failed does not report success.
C35_WriteFailureSurfaces ==
    \A w \in Workers :
        (/\ procs.run[w].pc = "done"
         /\ procs.run[w].write \notin {NoWrite, Nil}) =>
            procs.run[w].err = procs.run[w].write

\* C36: Suspend and Terminate invoke their handler for every flow they find
\* that is not already in the target state, before the transition is
\* tried, and not at all for a flow already in the target state.  So for a
\* flow in any state other than Started and Suspended, onSuspend runs and,
\* when it returns no error, the Suspend fails with InvalidTransition after
\* having tried the transition, without saving.
C36_HandlerBeforeValidation ==
    (/\ last.op \in {"Suspend", "Terminate"}
     /\ last.ctx = Live
     /\ last.id # ""
     /\ last.pre # NoFlow) =>
        LET handler == HandlerOf(last.op)
            target == IF last.op = "Suspend" THEN Suspended ELSE Terminated
        IN  /\ Count(last.calls, handler) =
                  IF last.pre.State = target THEN 0 ELSE 1
            /\ (/\ last.op = "Suspend"
                /\ last.pre.State \notin {Started, Suspended}
                /\ last.proc = Nil) =>
                  /\ last.calls = <<EvFindById, handler, EvTransition>>
                  /\ last.err = ErrInvalidTransition
                  /\ store[last.id] = last.pre

\* A Suspend of a flow in Terminated: onSuspend ran, then the transition was
\* refused and nothing was saved.
C36_Witness ==
    /\ last.op = "Suspend"
    /\ last.ctx = Live
    /\ last.pre # NoFlow
    /\ last.pre.State = Terminated
    /\ last.proc = Nil
    /\ Has(last.calls, EvOnSuspend)
    /\ last.err = ErrInvalidTransition
    /\ store[last.id] = last.pre

WriteCount(calls) == Count(calls, EvCreate) + Count(calls, EvSave)

\* C37: every engine operation makes at most one store write (one Create
\* or one Save) per call, and the write is the last step of the call: no
\* processor, handler, transition or other store call follows it.  A call
\* that fails makes no write and a call that makes no write leaves the
\* store as it was.
C37_OneWriteLast ==
    [][(clock' = clock /\ last'.op \in EngineOps) =>
          LET calls == last'.calls
          IN  /\ WriteCount(calls) <= 1
              /\ Writes(calls) =>
                    calls[Len(calls)] \in {EvCreate, EvSave}
              /\ last'.err # Nil => ~Writes(calls)
              /\ ~Writes(calls) => store' = store]_vars

\* A Start of a new flow: after the builder, the processor and the
\* transition, its one write, a Create, is the last call.
C37_Witness ==
    /\ last.op = "Start"
    /\ last.ctx = Live
    /\ last.pre = NoFlow
    /\ last.err = Nil
    /\ Len(last.calls) = 5
    /\ last.calls[5] = EvCreate
    /\ Count(last.calls, EvCreate) = 1
    /\ ~Has(last.calls, EvSave)

(* The edges along which an engine operation changes the persisted state  *)
(* of a stored flow.                                                       *)
EngineEdge(flow, to) ==
    \/ flow.State = Prepared /\ to \in {Starting, Started} /\ flow.Consumer
    \/ flow.State = Starting /\ to = Started
    \/ flow.State = Started /\ to \in {Suspended, Completed}
    \/ flow.State # Terminated /\ to = Terminated

\* C38: with processors that do not assign flow.State, an engine operation
\* changes the persisted state of a stored flow only from Prepared to
\* Starting or Started (consumer flows only), from Starting to Started,
\* from Started to Suspended or Completed, and from any state but
\* Terminated to Terminated.  In particular no engine operation moves a
\* stored flow from Preparing to Prepared or from Suspended to Started: a
\* flow stored in Preparing or Suspended stays there or is terminated.
C38_EngineEdges ==
    [][(clock' = clock /\ last'.op \in EngineOps) =>
          \A id \in FlowIds :
              store[id] # NoFlow =>
                 /\ store'[id] # NoFlow
                 /\ \/ store'[id].State = store[id].State
                    \/ EngineEdge(store[id], store'[id].State)
                 /\ store[id].State \in {Preparing, Suspended} =>
                       store'[id].State \in {store[id].State, Terminated}]_vars

\* A StartById of a consumer flow stored in Suspended: it is refused and the
\* stored flow is still Suspended.
C38_Witness ==
    /\ last.op = "StartById"
    /\ last.ctx = Live
    /\ last.pre # NoFlow
    /\ last.pre.Consumer
    /\ last.pre.State = Suspended
    /\ last.proc = DefaultStart
    /\ last.err = ErrInvalidTransition
    /\ store[last.id].State = Suspended

---------------------------------------------------------------------------
(* C39: concurrent Prepare or Start calls for an absent id *)

(* The callers of Prepare or Start whose FindById found no flow. *)
ReadNotFound ==
    {w \in Racers : /\ procs[w].op \in {"Prepare", "Start"}
                    /\ procs[w].pc = "done"
                    /\ procs[w].flow = NoFlow}

(* The calls the rest of the unit of work makes for a caller that read no *)
(* flow.                                                                   *)
NewFlowCalls(w) == RaceRun(procs[w], [id \in FlowIds |-> NoFlow], clock).calls

InvokedAsNew(w) ==
    IF procs[w].op = "Prepare"
    THEN Has(NewFlowCalls(w), EvOnPrepare(FALSE))
    ELSE Has(NewFlowCalls(w), EvOnStart(FALSE, NoAddress))

\* C39: every concurrent Prepare or Start call that read NotFound for the id
\* invokes its processor with Duplicate=false and then calls Create; at
\* most one of these Creates succeeds and each of the others fails with
\* Conflict.  So the processor can run as for a new flow more than once for
\* an id that has a single stored flow.
C39_RacingNewFlows ==
    /\ \A w \in ReadNotFound :
          /\ InvokedAsNew(w)
          /\ procs[w].created \in {"ok", "failed"}
          /\ procs[w].created = "ok" <=> procs[w].err = Nil
          /\ procs[w].created = "failed" => procs[w].err = ErrConflict
    /\ Cardinality({w \in ReadNotFound : procs[w].created = "ok"}) <= 1

\* Two Prepare calls that both read NotFound and both ran the processor as
\* for a new flow: one created the flow, the other got Conflict, and one
\* flow is stored.
C39_Witness ==
    /\ RaceDone
    /\ \A w \in Racers : procs[w].op = "Prepare"
    /\ Cardinality(ReadNotFound) >= 2
    /\ \A w \in ReadNotFound : InvokedAsNew(w)
    /\ Cardinality({w \in Racers : procs[w].created = "ok"}) = 1
    /\ \E w \in Racers :
          procs[w].created = "failed" /\ procs[w].err = ErrConflict
    /\ store[ConcId] # NoFlow

---------------------------------------------------------------------------
(* C40: the first persisted stateCount and stateTimestamp *)

\* C40: a flow that Prepare creates with response Preparing, or Start with
\* response Starting, is first persisted with stateCount 0 (the builder's
\* state is the target, so the transition is a self-transition); one
\* created with response Prepared or Started is first persisted with
\* stateCount 1.  In both cases its first persisted stateTimestamp is
\* greater than 0.
C40_FirstStateCount ==
    (/\ last.op \in {"Prepare", "Start"}
     /\ last.ctx = Live
     /\ last.pre = NoFlow
     /\ Has(last.calls, EvCreate)
     /\ last.err = Nil) =>
        /\ store[last.id].State = last.proc.State
        /\ store[last.id].StateCount =
              IF last.proc.State = IntermediateOf(last.op) THEN 0 ELSE 1
        /\ store[last.id].StateTimestamp > 0

\* A Start whose processor answers Starting has created the flow with
\* stateCount 0 and the builder's timestamp.
C40_Witness ==
    /\ last.op = "Start"
    /\ last.ctx = Live
    /\ last.pre = NoFlow
    /\ last.err = Nil
    /\ last.proc.State = Starting
    /\ store[last.id].State = Starting
    /\ store[last.id].StateCount = 0
    /\ store[last.id].StateTimestamp = clock

====
